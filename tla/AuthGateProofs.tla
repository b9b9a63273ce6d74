---------------------------- MODULE AuthGateProofs ----------------------------
(***************************************************************************)
(* Theorems about AuthGate, for every set of texts, whatever the operator  *)
(* writes into the environment and ./.env, and any headers.                *)
(***************************************************************************)
EXTENDS AuthGate, TLAPS

USE TextAssumption, ChoiceAssumption

\* validate has seen the tokens of a running centre.
TokensValidated ==
    Running =>
        /\ LongEnough(centre.AdminToken) /\ LongEnough(centre.RegistrationToken)
        /\ centre.AdminToken # centre.RegistrationToken

\* The last answer is what the centre that is running, or the node, would give
\* now: a stop and a new start forget what the old centre answered.
AnswerIsCurrent ==
    answered # None =>
        /\ answered.request.route \in NodeRoutes \/ Running
        /\ answered.admitted = Admitted(answered.request)

\* The inductive invariant.
GateInv ==
    /\ TypeOK
    /\ TokensValidated
    /\ AnswerIsCurrent

-----------------------------------------------------------------------------
(* Configuration.                                                          *)

\* Whatever a variable or ./.env holds, getEnv returns a text.
LEMMA GetEnvIsValue ==
    ASSUME TypeOK, NEW name \in Names
    PROVE  GetEnv(name) \in Value
<1>1. env[name] \in Value \cup {Unset} /\ file[name] \in Raw \cup {Unset}
  BY DEF TypeOK
<1>2. ASSUME file[name] # Unset
      PROVE  Unquoted(file[name]) \in Value
  BY <1>1, <1>2 DEF Unquoted, Raw, Value
<1>3. LookupEnv(name) \in Value \cup {Unset}
  BY <1>1, <1>2 DEF LookupEnv
<1>4. Empty \in Value
  BY DEF Empty, Value, Word
<1> QED
  BY <1>3, <1>4 DEF GetEnv

\* What Load returns are settings, and validate has seen their tokens.
LEMMA LoadedIsValidated ==
    ASSUME TypeOK, ~Refused
    PROVE  /\ Loaded \in Settings
           /\ LongEnough(Loaded.AdminToken) /\ LongEnough(Loaded.RegistrationToken)
           /\ Loaded.AdminToken # Loaded.RegistrationToken
<1>1. /\ GetEnv("ADMIN_TOKEN") \in Value
      /\ GetEnv("REGISTRATION_TOKEN") \in Value
  BY GetEnvIsValue DEF Names, Tokens
<1>2. CentralSpeedtest \in BOOLEAN
  BY DEF CentralSpeedtest, GetEnvBool
<1>3. Valid
  BY DEF Refused
<1> QED
  BY <1>1, <1>2, <1>3 DEF Loaded, Settings, Valid

-----------------------------------------------------------------------------
(* Requests.                                                               *)

\* The routes fall into disjoint kinds, and each kind has one rule.
LEMMA AdmittedByKind ==
    ASSUME NEW r
    PROVE  /\ r.route \in AdminRoutes => Admitted(r) = RequireAdmin(r)
           /\ r.route \in RegistrationRoutes =>
                 Admitted(r) = RequireRegistrationOrAdmin(r)
           /\ r.route \in ProxyRoutes => Admitted(r) = TRUE
           /\ r.route \in DirectRoutes =>
                 Admitted(r) = centre.EnableCentralSpeedtest
           /\ r.route \in NodeProbes => Admitted(r) = AuthenticateAdmin(r)
           /\ r.route \in NodeTransfers => Admitted(r) = AuthenticateSpeedtest(r)
  BY DEF Admitted, AdminRoutes, RegistrationRoutes, ProxyRoutes, DirectRoutes,
         NodeProbes, NodeTransfers

\* Every route has a rule.
LEMMA RoutesHaveAKind ==
    ASSUME NEW r \in Request
    PROVE  r.route \in AdminRoutes \cup RegistrationRoutes \cup ProxyRoutes
                         \cup DirectRoutes \cup NodeRoutes
  BY DEF Request, Routes, AdminRoutes, RegistrationRoutes, ProxyRoutes,
         DirectRoutes, NodeRoutes, NodeProbes, NodeTransfers

\* The middleware lets a request through or does not.
LEMMA AdmittedIsBoolean ==
    ASSUME TypeOK, NEW r \in Request, r.route \in NodeRoutes \/ Running
    PROVE  Admitted(r) \in BOOLEAN
<1>1. Running => centre.EnableCentralSpeedtest \in BOOLEAN
  BY DEF TypeOK, Running, Settings
<1>2. /\ RequireAdmin(r) \in BOOLEAN /\ RequireRegistrationOrAdmin(r) \in BOOLEAN
      /\ AuthenticateAdmin(r) \in BOOLEAN /\ AuthenticateSpeedtest(r) \in BOOLEAN
  BY DEF RequireAdmin, RequireRegistrationOrAdmin, AuthenticateAdmin,
         AuthenticateSpeedtest
<1>3. r.route \in NodeRoutes => r.route \notin DirectRoutes
  BY DEF NodeRoutes, NodeProbes, NodeTransfers, DirectRoutes
<1> QED
  BY <1>1, <1>2, <1>3, AdmittedByKind, RoutesHaveAKind DEF NodeRoutes

-----------------------------------------------------------------------------
(* The invariant.                                                          *)

\* Edits reach no running centre.
LEMMA EditStep ==
    ASSUME GateInv, NEW name \in Names, Edit(name)
    PROVE  GateInv'
<1>1. env' \in [Names -> Value \cup {Unset}] /\ file' \in [Names -> Raw \cup {Unset}]
  BY DEF Edit, GateInv, TypeOK
<1>2. edits' \in 0..MaxEdits /\ answered' = None /\ UNCHANGED centre
  BY DEF Edit, GateInv, TypeOK
<1> QED
  BY <1>1, <1>2 DEF GateInv, TypeOK, TokensValidated, AnswerIsCurrent, Running,
                    LongEnough

\* A centre starts with validated tokens; until then only nodes have answered.
LEMMA BootStep ==
    ASSUME GateInv, Boot
    PROVE  GateInv'
<1>1. /\ centre = Stopped /\ centre' = Loaded
      /\ UNCHANGED <<env, file, edits, answered>>
  BY DEF Boot
<1>2. /\ Loaded \in Settings
      /\ LongEnough(Loaded.AdminToken) /\ LongEnough(Loaded.RegistrationToken)
      /\ Loaded.AdminToken # Loaded.RegistrationToken
  BY LoadedIsValidated DEF Boot, GateInv
<1> HIDE DEF Loaded
<1>3. TypeOK'
  BY <1>1, <1>2 DEF GateInv, TypeOK
<1>4. TokensValidated'
  BY <1>1, <1>2 DEF TokensValidated, LongEnough
<1>5. ASSUME answered # None
      PROVE  /\ answered.request.route \in NodeRoutes
             /\ Admitted(answered.request)' = Admitted(answered.request)
  <2> DEFINE r == answered.request
  <2>1. r.route \in NodeProbes \/ r.route \in NodeTransfers
    BY <1>1, <1>5 DEF GateInv, AnswerIsCurrent, Running, NodeRoutes
  <2>2. /\ AuthenticateAdmin(r)' = AuthenticateAdmin(r)
        /\ AuthenticateSpeedtest(r)' = AuthenticateSpeedtest(r)
    BY <1>1 DEF AuthenticateAdmin, AuthenticateSpeedtest, PickToken
  <2> QED
    BY <2>1, <2>2, <1>1
    DEF Admitted, AdminRoutes, RegistrationRoutes, ProxyRoutes, DirectRoutes,
        NodeProbes, NodeTransfers, NodeRoutes
<1>6. AnswerIsCurrent'
  BY <1>1, <1>5 DEF GateInv, AnswerIsCurrent
<1> QED
  BY <1>3, <1>4, <1>6 DEF GateInv

\* A request is judged by the settings of the moment.
LEMMA ServeStep ==
    ASSUME GateInv, NEW r \in Request, Serve(r)
    PROVE  GateInv'
<1>1. /\ r.route \in NodeRoutes \/ Running
      /\ answered' = [request |-> r, admitted |-> Admitted(r)]
      /\ UNCHANGED <<env, file, edits, centre>>
  BY DEF Serve, Running
<1>2. Admitted(r) \in BOOLEAN
  BY <1>1, AdmittedIsBoolean DEF GateInv
<1>3. Admitted(r)' = Admitted(r)
  BY <1>1 DEF Admitted, RequireAdmin, RequireRegistrationOrAdmin,
     AuthenticateAdmin, AuthenticateSpeedtest
<1>4. /\ answered'.request = r /\ answered'.admitted = Admitted(r)
      /\ answered' \in [request : Request, admitted : BOOLEAN]
  BY <1>1, <1>2
<1>5. TypeOK' /\ TokensValidated'
  BY <1>1, <1>4 DEF GateInv, TypeOK, TokensValidated, Running, LongEnough
<1>6. AnswerIsCurrent'
  BY <1>1, <1>3, <1>4 DEF AnswerIsCurrent, Running
<1> QED
  BY <1>5, <1>6 DEF GateInv

\* Every step keeps the invariant.
LEMMA GateInvIsInductive ==
    ASSUME GateInv, [Next]_vars
    PROVE  GateInv'
<1>1. CASE Stop
  BY <1>1 DEF Stop, GateInv, TypeOK, TokensValidated, AnswerIsCurrent, Running
<1>2. CASE UNCHANGED vars
  BY <1>2 DEF vars, GateInv, TypeOK, TokensValidated, AnswerIsCurrent, Running,
     LongEnough, Admitted, RequireAdmin, RequireRegistrationOrAdmin,
     AuthenticateAdmin, AuthenticateSpeedtest
<1> QED
  BY <1>1, <1>2, EditStep, BootStep, ServeStep DEF Next

-----------------------------------------------------------------------------
(* Theorems.                                                               *)

\* Every reachable state satisfies the invariant.
THEOREM GateInvariantHolds == Spec => []GateInv
<1>1. Init => GateInv
  BY DEF Init, GateInv, TypeOK, TokensValidated, AnswerIsCurrent, Running
<1> QED
  BY <1>1, GateInvIsInductive, PTL DEF Spec

\* The variables keep their types.
THEOREM GateTypeCorrect == Spec => []TypeOK
  BY GateInvariantHolds, PTL DEF GateInv

\* A header's token equals a configured value only as its text.
LEMMA EqualsText ==
    ASSUME NEW v \in Value, Plain(v), NEW text
    PROVE  Equals(text, v) <=> text = v.text
  BY DEF Equals, Plain, Value

\* Values without blanks are told apart by their texts.
LEMMA PlainValuesEqual ==
    ASSUME NEW v \in Value, NEW w \in Value, Plain(v), Plain(w),
           v.text = w.text
    PROVE  v = w
<1>1. v = [text |-> v.text, padded |-> v.padded]
      /\ w = [text |-> w.text, padded |-> w.padded]
  BY DEF Value
<1>2. v.padded = FALSE /\ w.padded = FALSE
  BY DEF Value, Plain
<1> QED
  BY <1>1, <1>2

\* What stands in ./.env without quotes is read without blanks.
LEMMA UnquotedIsPlain ==
    ASSUME NEW raw, ~raw.quoted
    PROVE  Unquoted(raw).text = raw.text /\ Plain(Unquoted(raw))
  BY DEF Unquoted, Plain

\* The types of the tokens that a request meets, and their texts.
LEMMA TokensInUse ==
    ASSUME GateInv, Running
    PROVE  /\ centre.AdminToken \in Value /\ centre.RegistrationToken \in Value
           /\ Plain(centre.AdminToken) => centre.AdminToken.text # Nothing
           /\ Plain(centre.RegistrationToken) =>
                 centre.RegistrationToken.text # Nothing
  BY DEF GateInv, TypeOK, Running, Settings, TokensValidated, LongEnough, Plain

\* What a route asks of a request without tokens.
LEMMA AnonymousAdmitted ==
    ASSUME GateInv, Running, LetIn, Req.route \in ProxyRoutes \cup DirectRoutes
    PROVE  Admitted(Anonymous)
<1>1. Req \in Request /\ Admitted(Req)
  BY DEF LetIn, GateInv, TypeOK, AnswerIsCurrent, Req
<1>2. Anonymous.route = Req.route
  BY <1>1 DEF Anonymous, Request
<1> QED
  BY <1>1, <1>2, AdmittedByKind

\* Whoever has the registration token only gets past no admin route, and past
\* no other that is not open to all.
THEOREM RolesAreSeparate == Spec => []RolesSeparate
<1>1. ASSUME GateInv, LetIn, Running,
             Plain(centre.AdminToken), Plain(centre.RegistrationToken),
             Headers \subseteq {centre.RegistrationToken.text, Nothing},
             Req.route \in AdminRoutes
      PROVE  FALSE
  <2> DEFINE token == PickToken(Req.admin, Req.bearer)
  <2>1. RequireAdmin(Req)
    BY <1>1, AdmittedByKind DEF LetIn, GateInv, AnswerIsCurrent, Req
  <2>2. token # Nothing /\ token = centre.AdminToken.text
    BY <1>1, <2>1, TokensInUse, EqualsText DEF RequireAdmin
  <2>3. token = centre.RegistrationToken.text
    BY <1>1, <2>2 DEF PickToken, Headers
  <2>4. centre.AdminToken = centre.RegistrationToken
    BY <1>1, <2>2, <2>3, TokensInUse, PlainValuesEqual
  <2> QED
    BY <1>1, <2>4 DEF GateInv, TokensValidated
<1>2. GateInv => RolesSeparate
  <2> SUFFICES ASSUME GateInv, LetIn, Running,
                      Req.route \notin RegistrationRoutes \cup NodeRoutes,
                      Plain(centre.AdminToken), Plain(centre.RegistrationToken),
                      Headers \subseteq {centre.RegistrationToken.text, Nothing}
               PROVE  Req.route \notin AdminRoutes /\ Admitted(Anonymous)
    BY DEF RolesSeparate
  <2>1. Req.route \notin AdminRoutes
    BY <1>1
  <2>2. Req \in Request
    BY DEF LetIn, GateInv, TypeOK, Req
  <2>3. Req.route \in ProxyRoutes \cup DirectRoutes
    BY <2>1, <2>2, RoutesHaveAKind
  <2> QED
    BY <2>1, <2>3, AnonymousAdmitted
<1> QED
  BY <1>2, GateInvariantHolds, PTL

\* The admin token opens every route that needs a token.
THEOREM AdminTokenSuffices == Spec => []AdminTokenIsEnough
<1>1. GateInv => AdminTokenIsEnough
  <2> SUFFICES ASSUME GateInv, answered # None, Running,
                      Plain(centre.AdminToken),
                      PickToken(Req.admin, Req.bearer) = centre.AdminToken.text,
                      Req.route \in AdminRoutes \cup RegistrationRoutes
               PROVE  answered.admitted
    BY DEF AdminTokenIsEnough
  <2>1. RequireAdmin(Req)
    BY TokensInUse, EqualsText DEF RequireAdmin
  <2>2. RequireRegistrationOrAdmin(Req)
    BY <2>1 DEF RequireRegistrationOrAdmin
  <2> QED
    BY <2>1, <2>2, AdmittedByKind DEF GateInv, AnswerIsCurrent, Req
<1> QED
  BY <1>1, GateInvariantHolds, PTL

\* Tokens written into ./.env without quotes open their routes.
THEOREM FileTokensWork == Spec => []TokensInTheFileWork
<1>1. GateInv => TokensInTheFileWork
  <2> SUFFICES ASSUME GateInv, answered # None, Running, FromFile,
                      \A name \in {"ADMIN_TOKEN", "REGISTRATION_TOKEN"} :
                         ~file[name].quoted
               PROVE  /\ /\ Req.route \in AdminRoutes
                         /\ Req.admin = file["ADMIN_TOKEN"].text
                         => answered.admitted
                      /\ /\ Req.route \in RegistrationRoutes
                         /\ Req.registration = file["REGISTRATION_TOKEN"].text
                         => answered.admitted
    BY DEF TokensInTheFileWork
  <2>1. /\ centre.AdminToken.text = file["ADMIN_TOKEN"].text
        /\ centre.RegistrationToken.text = file["REGISTRATION_TOKEN"].text
        /\ Plain(centre.AdminToken) /\ Plain(centre.RegistrationToken)
    BY UnquotedIsPlain DEF FromFile
  <2>2. Req.admin = file["ADMIN_TOKEN"].text => RequireAdmin(Req)
    BY <2>1, TokensInUse, EqualsText DEF RequireAdmin, PickToken
  <2>3. Req.registration = file["REGISTRATION_TOKEN"].text =>
           RequireRegistrationOrAdmin(Req)
    BY <2>1, TokensInUse, EqualsText DEF RequireRegistrationOrAdmin, PickToken
  <2> QED
    BY <2>2, <2>3, AdmittedByKind DEF GateInv, AnswerIsCurrent, Req
<1> QED
  BY <1>1, GateInvariantHolds, PTL

=============================================================================
