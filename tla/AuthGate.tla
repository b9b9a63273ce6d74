------------------------------- MODULE AuthGate -------------------------------
(***************************************************************************)
(* Who is let in: how the centre gets its tokens from its environment and  *)
(* ./.env (internal/config), refuses to start with bad ones, and compares  *)
(* them with the headers of a request (cmd/web/server.go,                  *)
(* internal/security); and the same at a node (cmd/node/server.go).        *)
(*                                                                         *)
(* A value is its text without surrounding blanks and quotes, and whether  *)
(* it had them: that is all the code can tell apart.  HTTP removes the     *)
(* blanks around a header's value, so headers are texts.                   *)
(***************************************************************************)
EXTENDS Naturals

CONSTANTS Texts,        \* bound: the texts of tokens, nonempty
          Strong,       \* those of at least MinTokenLength characters
          NodeKey,      \* the key the node agent runs with
          Nothing,      \* the empty text, and a header that is not there
          Unset,        \* a variable that is not set
          Stopped,      \* the centre is not running
          None,         \* no request answered yet
          Presented,    \* bound: the texts callers put into headers
          InitialFile,  \* the ./.env of the installation
          MaxEdits,     \* bound: how often the operator edits a variable
          EnvChoices,   \* bound: the values of each variable, set by the
          FileChoices   \* process that starts the centre, and in ./.env

Tokens == {"ADMIN_TOKEN", "REGISTRATION_TOKEN", "SECRET_KEY"}
Switches == {"STORE_NODE_KEY_SEALED", "ENABLE_CENTRAL_SPEEDTEST",
             "ENABLE_WEB_SPEEDTEST"}
Names == Tokens \cup Switches

Word == Texts \cup {Nothing}
Value == [text : Word, padded : BOOLEAN]
Raw == [text : Word, padded : BOOLEAN, quoted : BOOLEAN]

ASSUME TextAssumption == /\ Strong \subseteq Texts /\ NodeKey \in Texts
                         /\ Nothing \notin Texts /\ Unset \notin Value \cup Raw
ASSUME ChoiceAssumption ==
    /\ EnvChoices \in [Names -> SUBSET (Value \cup {Unset})]
    /\ FileChoices \in [Names -> SUBSET (Raw \cup {Unset})]
    /\ InitialFile \in [Names -> Raw \cup {Unset}]
    /\ Presented \subseteq Word /\ MaxEdits \in Nat

VARIABLES env,      \* the environment the next start of the centre gets
          file,     \* ./.env
          edits,    \* how often either has been edited
          centre,   \* the Settings in use, or Stopped
          answered  \* the last request and whether it got past the middleware

vars == <<env, file, edits, centre, answered>>

-----------------------------------------------------------------------------
(* Configuration.                                                          *)

\* Seeded fault: the value is taken as it stands behind the equals sign.
UnquotedKeepingBlanks(raw) == [text |-> raw.text, padded |-> raw.padded]

\* Seeded fault: the line is cut at its equals sign and nothing else is done.
Unparsed(raw) == raw

\* loadDotEnv: blanks go before the quotes do, those inside them stay.
Unquoted(raw) == [text |-> raw.text, padded |-> raw.padded /\ raw.quoted]

\* loadDotEnv, getEnv: what is in the environment, even if empty, wins.
LookupEnv(name) ==
    CASE env[name] # Unset  -> env[name]
      [] env[name] = Unset /\ file[name] # Unset -> Unquoted(file[name])
      [] OTHER -> Unset

Empty == [text |-> Nothing, padded |-> FALSE]

\* getEnv(name, "")
GetEnv(name) == IF LookupEnv(name) = Unset THEN Empty ELSE LookupEnv(name)

\* strconv.ParseBool, of the words considered here.
ParsesAs(v, b) == v = [text |-> IF b THEN "true" ELSE "false", padded |-> FALSE]
Parses(v) == ParsesAs(v, TRUE) \/ ParsesAs(v, FALSE)

\* getEnvBool fails.
BadSwitch(name) == GetEnv(name) # Empty /\ ~Parses(GetEnv(name))

\* getEnvBool, when it does not fail: all defaults are true.
GetEnvBool(name) == ~ParsesAs(GetEnv(name), FALSE)

\* ENABLE_WEB_SPEEDTEST wins over ENABLE_CENTRAL_SPEEDTEST, if it parses.
CentralSpeedtest ==
    IF Parses(GetEnv("ENABLE_WEB_SPEEDTEST"))
    THEN GetEnvBool("ENABLE_WEB_SPEEDTEST")
    ELSE GetEnvBool("ENABLE_CENTRAL_SPEEDTEST")

\* len(v) >= MinTokenLength: blanks count, and there may be any number.
LongEnough(v) == v.text \in Strong \/ v.padded

\* Seeded fault: validate does not compare the two tokens.
ValidAlone ==
    /\ \A name \in {"ADMIN_TOKEN", "REGISTRATION_TOKEN"} :
          LongEnough(GetEnv(name))
    /\ GetEnvBool("STORE_NODE_KEY_SEALED") => LongEnough(GetEnv("SECRET_KEY"))

\* Settings.validate
Valid ==
    /\ \A name \in {"ADMIN_TOKEN", "REGISTRATION_TOKEN"} :
          LongEnough(GetEnv(name))
    /\ GetEnv("ADMIN_TOKEN") # GetEnv("REGISTRATION_TOKEN")
    /\ GetEnvBool("STORE_NODE_KEY_SEALED") => LongEnough(GetEnv("SECRET_KEY"))

\* Load fails.
Refused ==
    \/ BadSwitch("STORE_NODE_KEY_SEALED")
    \/ BadSwitch("ENABLE_CENTRAL_SPEEDTEST")
    \/ ~Valid

Settings == [AdminToken : Value, RegistrationToken : Value,
             EnableCentralSpeedtest : BOOLEAN]

Loaded == [AdminToken |-> GetEnv("ADMIN_TOKEN"),
           RegistrationToken |-> GetEnv("REGISTRATION_TOKEN"),
           EnableCentralSpeedtest |-> CentralSpeedtest]

-----------------------------------------------------------------------------
(* Requests.                                                               *)

AdminRoutes == {"list", "get", "enable", "disable", "delete", "health", "speedtest"}
RegistrationRoutes == {"register", "register/auto"}
ProxyRoutes == {"proxied ping", "proxied download", "proxied upload"}
DirectRoutes == {"direct ping", "direct download", "direct upload"}
NodeProbes == {"node healthz"}
NodeTransfers == {"node ping", "node download", "node upload"}
NodeRoutes == NodeProbes \cup NodeTransfers

\* One route of each kind is enough: those of a kind share their middleware.
Routes == {"speedtest", "register/auto", "proxied ping", "direct ping"} \cup
          {"node healthz", "node upload"}

\* The X-Admin-Token, X-Registration-Token and X-Node-Key headers, and the
\* token of Authorization if its scheme is Bearer.  What the other server reads
\* is left out.
Request ==
    {r \in [route : Routes, admin : Presented, registration : Presented,
            key : Presented, bearer : Presented] :
        IF r.route \in NodeRoutes
        THEN r.admin = Nothing /\ r.registration = Nothing
        ELSE r.key = Nothing}

PickToken(header, bearer) == IF header # Nothing THEN header ELSE bearer

\* ConstantTimeEquals of a header and a configured value.
Equals(text, value) == value = [text |-> text, padded |-> FALSE]

RequireAdmin(r) ==
    LET token == PickToken(r.admin, r.bearer)
    IN  token # Nothing /\ Equals(token, centre.AdminToken)

\* Seeded fault: X-Registration-Token is looked at first, and decides.
RegistrationDecides(r) ==
    IF r.registration # Nothing
    THEN Equals(r.registration, centre.RegistrationToken)
    ELSE RequireAdmin(r)

RequireRegistrationOrAdmin(r) ==
    \/ RequireAdmin(r)
    \/ LET token == PickToken(r.registration, r.bearer)
       IN  token # Nothing /\ Equals(token, centre.RegistrationToken)

\* authenticateAdmin and authenticateSpeedtest of the node.
AuthenticateAdmin(r) == PickToken(r.key, r.bearer) = NodeKey
AuthenticateSpeedtest(r) == PickToken(r.key, r.bearer) \in {NodeKey, Nothing}

\* The routes of both servers.
Admitted(r) ==
    CASE r.route \in AdminRoutes        -> RequireAdmin(r)
      [] r.route \in RegistrationRoutes -> RequireRegistrationOrAdmin(r)
      [] r.route \in ProxyRoutes        -> TRUE
      [] r.route \in DirectRoutes       -> centre.EnableCentralSpeedtest
      [] r.route \in NodeProbes         -> AuthenticateAdmin(r)
      [] r.route \in NodeTransfers      -> AuthenticateSpeedtest(r)

-----------------------------------------------------------------------------
Edit(name) ==
    /\ edits < MaxEdits
    /\ edits' = edits + 1
    /\ \/ \E v \in EnvChoices[name] : env' = [env EXCEPT ![name] = v]
          /\ UNCHANGED file
       \/ \E v \in FileChoices[name] : file' = [file EXCEPT ![name] = v]
          /\ UNCHANGED env
    /\ answered' = None
    /\ UNCHANGED centre

\* main: the centre starts, or log.Fatalf.
Boot ==
    /\ centre = Stopped
    /\ ~Refused
    /\ centre' = Loaded
    /\ UNCHANGED <<env, file, edits, answered>>

Stop ==
    /\ centre # Stopped
    /\ centre' = Stopped
    /\ answered' = None
    /\ UNCHANGED <<env, file, edits>>

\* Requests do not depend on one another: one at a time is enough.
Serve(r) ==
    /\ answered = None
    /\ r.route \in NodeRoutes \/ centre # Stopped
    /\ answered' = [request |-> r, admitted |-> Admitted(r)]
    /\ UNCHANGED <<env, file, edits, centre>>

Init ==
    /\ env = [name \in Names |-> Unset]
    /\ file = InitialFile
    /\ edits = 0
    /\ centre = Stopped
    /\ answered = None

Next ==
    \/ \E name \in Names : Edit(name)
    \/ Boot \/ Stop
    \/ \E r \in Request : Serve(r)

Spec == Init /\ [][Next]_vars

-----------------------------------------------------------------------------
(* Properties.                                                             *)

\* Types; and a running centre has tokens that validate accepted.
TypeOK ==
    /\ env \in [Names -> Value \cup {Unset}]
    /\ file \in [Names -> Raw \cup {Unset}]
    /\ edits \in 0..MaxEdits
    /\ centre \in Settings \cup {Stopped}
    /\ answered \in [request : Request, admitted : BOOLEAN] \cup {None}

Running == centre # Stopped
LetIn == answered # None /\ answered.admitted
Req == answered.request
Headers == {Req.admin, Req.registration, Req.bearer}

Plain(v) == ~v.padded

\* The same request without any token.
Anonymous == [Req EXCEPT !.admin = Nothing, !.registration = Nothing,
                         !.bearer = Nothing]

\* The registration token opens the registration routes and nothing else: no
\* admin route, and of the others of the centre only what is open to a request
\* without any token, whichever headers it is put into, and whatever edits and
\* starts went before (README.md:179-182 of the repository).  The proxies of a
\* node are among those that are open (server.go:70-73), although README.md:135
\* asks for the admin token on all of /api/nodes/*.  It takes that the tokens
\* carry no blanks: validate takes "t" and " t" for different tokens.
RolesSeparate ==
    /\ LetIn /\ Running
    /\ Req.route \notin RegistrationRoutes \cup NodeRoutes
    /\ Plain(centre.AdminToken) /\ Plain(centre.RegistrationToken)
    /\ Headers \subseteq {centre.RegistrationToken.text, Nothing}
    => Req.route \notin AdminRoutes /\ Admitted(Anonymous)

\* The admin token alone, in its own header or as a bearer token, is enough for
\* everything that needs a token, whatever stands in X-Registration-Token
\* (cmd/web/server.go:145: the page needs the admin token only).
AdminTokenIsEnough ==
    /\ answered # None /\ Running
    /\ Plain(centre.AdminToken)
    /\ PickToken(Req.admin, Req.bearer) = centre.AdminToken.text
    /\ Req.route \in AdminRoutes \cup RegistrationRoutes
    => answered.admitted

\* The centre is running with what ./.env says now.
FromFile ==
    /\ \A name \in {"ADMIN_TOKEN", "REGISTRATION_TOKEN"} :
          env[name] = Unset /\ file[name] # Unset
    /\ centre.AdminToken = Unquoted(file["ADMIN_TOKEN"])
    /\ centre.RegistrationToken = Unquoted(file["REGISTRATION_TOKEN"])

\* A centre that accepted tokens written without quotes into ./.env can be
\* reached with them, with blanks around them or without: there is no token
\* that passes validate and that no header can carry.
TokensInTheFileWork ==
    /\ answered # None /\ Running /\ FromFile
    /\ \A name \in {"ADMIN_TOKEN", "REGISTRATION_TOKEN"} : ~file[name].quoted
    => /\ /\ Req.route \in AdminRoutes
          /\ Req.admin = file["ADMIN_TOKEN"].text
          => answered.admitted
       /\ /\ Req.route \in RegistrationRoutes
          /\ Req.registration = file["REGISTRATION_TOKEN"].text
          => answered.admitted
=============================================================================
