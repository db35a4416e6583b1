----------------------------- MODULE MCAuditor -----------------------------
(* A small instance of Auditor: one address from which two accounts are tried
   and one signs in.  There are no probes: their alert reads nothing and no
   property is about it. *)
EXTENDS Auditor

CONSTANTS fail1, fail2, ok, ip

MCKeys == {fail1, fail2, ok}
MCFailures == {fail1, fail2}
MCSuccesses == {ok}
MCProbes == {}
MCIPs == {ip}
MCIpOf == [k \in MCKeys |-> ip]
=============================================================================
