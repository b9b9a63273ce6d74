----------------------------- MODULE MCTargetGuard -----------------------------
(* A small instance of TargetGuard for TLC.                                *)
EXTENDS TargetGuard

\* Two texts of one name, and two of the loopback address.
MCDomain == [n \in Names |-> "node"]
MCClass == [ip \in Literals |->
    CASE ip = "192.0.2.7" -> "" [] ip = "10.0.0.1" -> "private"
      [] ip \in {"::1", "0:0:0:0:0:0:0:1"} -> "loopback"
      [] ip = "fe80::1%eth0" -> "unparsable"]
MCAnswers == {{"192.0.2.7"}, {"192.0.2.7", "10.0.0.1"}, {"fe80::1%eth0"},
              NoAnswer}
MCProtocols == {{"http", "https"}, {"https"}}
=============================================================================
