-------------------------- MODULE TargetGuardProofs --------------------------
(***************************************************************************)
(* Theorems about TargetGuard, for every set of names, literals, answers   *)
(* of DNS and ports.                                                       *)
(***************************************************************************)
EXTENDS TargetGuard, TLAPS

\* What registration leaves in the table: plain spellings, open ports and
\* protocols that some setting allows.
RowsNormalised ==
    \A r \in rows :
       \E host \in Hosts, port \in OpenPorts, protocol \in {"http", "https"} :
          r = Stored(host, port, protocol)

\* The check of the contact under way passed under the settings of now: it has
\* seen nothing that they forbid.
ContactJudged ==
    contact # NoContact =>
        settings.AllowPrivateNodes \/
            \A ip \in contact.judged : Class[ip] \in {"", "unparsable"}

\* The inductive invariant.
GuardInv ==
    /\ TypeOK
    /\ RowsNormalised
    /\ OneRowPerHostText
    /\ ContactJudged
    /\ DialsObeyTheSettings

\* An accepted target is stored in a normal form of its own host, port and
\* protocol.
LEMMA AcceptedIsNormalised ==
    ASSUME settings \in SettingsSet, NEW t \in Target, Acceptable(t)
    PROVE  /\ t.address.host \in Hosts
           /\ t.port \in OpenPorts
           /\ t.protocol \in {"http", "https"}
           /\ Normalised(t) = Stored(t.address.host, t.port, t.protocol)
<1>1. settings.AllowedNodeProtocols \subseteq {"http", "https"}
  BY AnswerAssumption DEF SettingsSet
<1> QED
  BY <1>1 DEF Acceptable, Target, Address, Normalised

\* A stored row is a target again, and parsing it gives it back.
LEMMA StoredIsNormal ==
    ASSUME NEW host \in Hosts, NEW port \in OpenPorts,
           NEW protocol \in {"http", "https"}
    PROVE  LET r == Stored(host, port, protocol) IN
           /\ r \in Target
           /\ r.address.host = host /\ r.port = port /\ r.protocol = protocol
           /\ WellFormed(r.address)
           /\ Normalised(r) = r
  BY DEF Stored, Target, Address, Spellings, WellFormed, Normalised

\* A registration keeps one row per endpoint: the row it replaces is found by
\* the normal form of the address.
LEMMA RegisterStep ==
    ASSUME GuardInv, NEW t \in Target, Register(t)
    PROVE  GuardInv'
<1> DEFINE new == Normalised(t)
<1>1. PICK host \in Hosts, port \in OpenPorts, protocol \in {"http", "https"} :
         /\ new = Stored(host, port, protocol)
         /\ host = t.address.host /\ port = t.port
  BY AcceptedIsNormalised DEF Register, Valid, GuardInv, TypeOK
<1>2. /\ new \in Target /\ new.port \in OpenPorts /\ new.port = t.port
  BY <1>1, StoredIsNormal
<1> HIDE DEF new
<1>3. rows' = {new} \cup {r \in rows : <<r.address, r.port>> # <<new.address, t.port>>}
  BY DEF Register, new
<1>4. UNCHANGED <<settings, dns, contact, changes>>
  BY DEF Register
<1>5. TypeOK'
  BY <1>2, <1>3, <1>4 DEF GuardInv, TypeOK
<1>6. RowsNormalised'
  BY <1>1, <1>3 DEF GuardInv, RowsNormalised
<1>7. OneRowPerHostText'
  <2>1. \A r, s \in rows' : r.address.host = s.address.host => r.address = s.address
    BY <1>6 DEF RowsNormalised, Stored
  <2> QED
    BY <1>2, <1>3, <2>1 DEF GuardInv, OneRowPerHostText
<1>8. DialsObeyTheSettings' /\ ContactJudged'
  BY <1>4 DEF GuardInv, DialsObeyTheSettings, ContactJudged
<1> QED
  BY <1>5, <1>6, <1>7, <1>8 DEF GuardInv

\* What a lookup returns is a set of literals, and a check that passed has seen
\* nothing in it that the settings forbid.
LEMMA JudgedAnswer ==
    ASSUME GuardInv, NEW r \in Target, BaseURL(r)
    PROVE  /\ ResolveAddresses(r.address.host) \in SUBSET Literals
           /\ r.protocol \in settings.AllowedNodeProtocols
<1>1. r.address.host \in Hosts /\ ResolveAddresses(r.address.host) # NoAnswer
  BY DEF BaseURL, Valid, Target, Address
<1>2. ASSUME r.address.host \in Literals
      PROVE  ResolveAddresses(r.address.host) \in SUBSET Literals
  BY <1>2 DEF ResolveAddresses
<1>3. ASSUME r.address.host \notin Literals
      PROVE  ResolveAddresses(r.address.host) \in SUBSET Literals
  <2>1. r.address.host \in Names
    BY <1>1, <1>3 DEF Hosts
  <2>2. dns[Domain[r.address.host]] \in Answers
    BY <2>1 DEF Domains, GuardInv, TypeOK
  <2> QED
    BY <1>1, <1>3, <2>2, AnswerAssumption DEF ResolveAddresses
<1> QED
  BY <1>2, <1>3 DEF BaseURL, Valid, Acceptable

\* A check begins a contact that has dialled nothing yet.
LEMMA CheckStep ==
    ASSUME GuardInv, NEW r \in rows, Check(r)
    PROVE  GuardInv'
<1>1. PICK host \in Hosts, port \in OpenPorts, protocol \in {"http", "https"} :
         r = Stored(host, port, protocol)
  BY DEF GuardInv, RowsNormalised
<1>2. /\ r \in Target /\ Normalised(r) = r
      /\ URLHost(Normalised(r).address.host) \in Address
  BY <1>1, StoredIsNormal DEF URLHost, Address, Spellings
<1>3. /\ contact' = [node |-> r, url |-> URLHost(Normalised(r).address.host),
                     judged |-> ResolveAddresses(r.address.host),
                     dialled |-> NotDialled]
      /\ UNCHANGED <<settings, dns, rows, changes>>
  BY <1>2 DEF Check
<1>4. /\ ResolveAddresses(r.address.host) \in SUBSET Literals
      /\ r.protocol \in settings.AllowedNodeProtocols
  BY <1>2, JudgedAnswer DEF Check
<1>5. contact' \in [node : Target, url : Address, judged : SUBSET Literals,
                    dialled : Literals \cup {NotDialled}]
  BY <1>2, <1>3, <1>4
<1>6. TypeOK' /\ RowsNormalised' /\ OneRowPerHostText'
  BY <1>3, <1>5 DEF GuardInv, TypeOK, RowsNormalised, OneRowPerHostText
<1>7. DialsObeyTheSettings' /\ ContactJudged'
  <2>1. /\ contact'.node = r /\ contact'.dialled = NotDialled
        /\ contact'.judged = ResolveAddresses(r.address.host)
    BY <1>3
  <2>2. Permitted(ResolveAddresses(r.address.host))
    BY DEF Check, BaseURL, Valid
  <2> QED
    BY <1>3, <1>4, <2>1, <2>2 DEF DialsObeyTheSettings, ContactJudged, Permitted
<1> QED
  BY <1>6, <1>7 DEF GuardInv

\* Whatever is dialled of what the check saw was allowed then, and the settings
\* have not changed since.
LEMMA DialStep ==
    ASSUME GuardInv, NEW ip \in Literals, Dial(ip)
    PROVE  GuardInv'
<1>1. /\ contact # NoContact
      /\ contact' = [contact EXCEPT !.dialled = ip]
      /\ UNCHANGED <<settings, dns, rows, changes>>
  BY DEF Dial
<1>2. contact \in [node : Target, url : Address, judged : SUBSET Literals,
                   dialled : Literals \cup {NotDialled}]
  BY <1>1 DEF GuardInv, TypeOK
<1>3. /\ contact' \in [node : Target, url : Address, judged : SUBSET Literals,
                       dialled : Literals \cup {NotDialled}]
      /\ contact'.node = contact.node /\ contact'.judged = contact.judged
      /\ contact'.dialled = ip
  BY <1>1, <1>2
<1>4. TypeOK' /\ RowsNormalised' /\ OneRowPerHostText'
  BY <1>1, <1>3 DEF GuardInv, TypeOK, RowsNormalised, OneRowPerHostText
<1>5. ContactJudged'
  BY <1>1, <1>3 DEF GuardInv, ContactJudged
<1>6. DialsObeyTheSettings'
  BY <1>1, <1>3 DEF GuardInv, ContactJudged, DialsObeyTheSettings
<1> QED
  BY <1>4, <1>5, <1>6 DEF GuardInv

\* Other settings end the contacts of the old ones; another answer of DNS is not
\* the one that was judged.
LEMMA ChangeStep ==
    ASSUME GuardInv,
           \/ \E s \in SettingsSet : Restart(s)
           \/ \E n \in Domains, a \in Answers : ChangeDNS(n, a)
    PROVE  GuardInv'
<1>1. /\ UNCHANGED rows
      /\ changes' \in 0..MaxChanges
      /\ contact' = NoContact \/ UNCHANGED <<contact, settings>>
  BY AnswerAssumption DEF Restart, ChangeDNS, Change, GuardInv, TypeOK
<1>2. settings' \in SettingsSet /\ dns' \in [Domains -> Answers]
  BY DEF Restart, ChangeDNS, GuardInv, TypeOK
<1>3. TypeOK' /\ RowsNormalised' /\ OneRowPerHostText'
  BY <1>1, <1>2 DEF GuardInv, TypeOK, RowsNormalised, OneRowPerHostText
<1>4. DialsObeyTheSettings' /\ ContactJudged'
  BY <1>1 DEF GuardInv, DialsObeyTheSettings, ContactJudged
<1> QED
  BY <1>3, <1>4 DEF GuardInv

\* Every step keeps the invariant.
LEMMA GuardInvIsInductive ==
    ASSUME GuardInv, [Next]_vars
    PROVE  GuardInv'
<1>1. ASSUME NEW r \in rows, Delete(r)
      PROVE  GuardInv'
  BY <1>1 DEF Delete, GuardInv, TypeOK, RowsNormalised, OneRowPerHostText,
              DialsObeyTheSettings, ContactJudged
<1>2. CASE UNCHANGED vars
  BY <1>2 DEF vars, GuardInv, TypeOK, RowsNormalised, OneRowPerHostText,
              DialsObeyTheSettings, ContactJudged
<1> QED
  BY <1>1, <1>2, RegisterStep, CheckStep, DialStep, ChangeStep DEF Next

-----------------------------------------------------------------------------
(* Theorems.                                                               *)

\* Every reachable state satisfies the invariant.
THEOREM GuardInvariantHolds == Spec => []GuardInv
<1>1. Init => GuardInv
  BY AnswerAssumption
  DEF Init, GuardInv, TypeOK, RowsNormalised, OneRowPerHostText,
      DialsObeyTheSettings, ContactJudged
<1> QED
  BY <1>1, GuardInvIsInductive, PTL DEF Spec

\* The variables keep their types.
THEOREM GuardTypeCorrect == Spec => []TypeOK
  BY GuardInvariantHolds, PTL DEF GuardInv

\* Whatever is written around a host, it has one row for each port.
THEOREM OneRow == Spec => []OneRowPerHostText
  BY GuardInvariantHolds, PTL DEF GuardInv

\* Nothing that the settings forbid is dialled if the check of the same contact
\* has seen it.
THEOREM DialsObey == Spec => []DialsObeyTheSettings
  BY GuardInvariantHolds, PTL DEF GuardInv

\* What was stored still reads as the endpoint that was registered.
THEOREM StoredStaysStable == Spec => []StoredIsStable
<1>1. GuardInv => StoredIsStable
  <2>1. SUFFICES ASSUME GuardInv, NEW r \in rows
                 PROVE  /\ Normalised(r) = r
                        /\ (/\ settings = [AllowPrivateNodes |-> TRUE,
                                  AllowedNodeProtocols |-> {"http", "https"}]
                            /\ ResolveAddresses(r.address.host) # NoAnswer)
                           => Valid(r)
    BY DEF StoredIsStable
  <2>2. PICK host \in Hosts, port \in OpenPorts, protocol \in {"http", "https"} :
           r = Stored(host, port, protocol)
    BY <2>1 DEF GuardInv, RowsNormalised
  <2>3. Normalised(r) = r
    BY <2>2, StoredIsNormal
  <2>4. ASSUME settings = [AllowPrivateNodes |-> TRUE,
                           AllowedNodeProtocols |-> {"http", "https"}]
        PROVE  settings.AllowPrivateNodes
               /\ settings.AllowedNodeProtocols = {"http", "https"}
    BY <2>4
  <2>5. WellFormed(r.address) /\ r.port \in OpenPorts
        /\ r.protocol \in {"http", "https"}
    BY <2>2 DEF Stored, WellFormed
  <2> QED
    BY <2>3, <2>4, <2>5 DEF Valid, Acceptable, Permitted
<1> QED
  BY <1>1, GuardInvariantHolds, PTL

=============================================================================
