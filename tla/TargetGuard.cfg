SPECIFICATION Spec
INVARIANTS
    TypeOK
    OneRowPerHostText
    StoredIsStable
    DialsObeyTheSettings
CONSTANTS
    Names = {"node", "NODE"}
    Domain <- MCDomain
    Literals = {"192.0.2.7", "10.0.0.1", "::1", "0:0:0:0:0:0:0:1", "fe80::1%eth0"}
    IPv6 = {"::1", "0:0:0:0:0:0:0:1", "fe80::1%eth0"}
    Class <- MCClass
    Answers <- MCAnswers
    OpenPorts = {8081}
    BlockedPort = 22
    OutOfRange = 0
    Protocols <- MCProtocols
    NoAnswer = NoAnswer
    NoContact = NoContact
    NotDialled = NotDialled
    MaxRows = 2
    MaxChanges = 2
