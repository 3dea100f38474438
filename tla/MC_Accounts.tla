----------------------------- MODULE MC_Accounts -----------------------------
(* Model values and bounds for checking Accounts with TLC. *)
EXTENDS Accounts

CONSTANTS u1, u2, d1, d2, t1, t2, t3, t4

MC_Usernames == {u1, u2}
MC_DeviceIds == {d1, d2}
MC_TokenIds  == {t1, t2, t3, t4}

\* Seven-character prefixes of random tokens: t1 and t2 share one.
MC_TokenPrefix(t) == IF t \in {t1, t2} THEN "p1" ELSE IF t = t3 THEN "p3" ELSE "p4"

=============================================================================
