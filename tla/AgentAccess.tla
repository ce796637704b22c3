----------------------------- MODULE AgentAccess -----------------------------
(***************************************************************************)
(* How credentials for the agents of one server come and go, as if each    *)
(* enrollment were carried out at one moment: an open token brings one     *)
(* credential and is spent, whoever else presents it; a credential comes   *)
(* of a token or of an agent that has one; only an operator, a rotation    *)
(* token or an agent's own rotation retires one, and for good.             *)
(***************************************************************************)
CONSTANTS Credentials, Tokens

VARIABLES
  credential, \* AgentCredential.status, or ABSENT
  purpose,    \* EnrollmentToken.purpose, or NONE for a token not issued yet
  open        \* the tokens that may still bring a credential

vars == <<credential, purpose, open>>

Active == {c \in Credentials : credential[c] = "ACTIVE"}

Init ==
  /\ credential = [c \in Credentials |-> "ABSENT"]
  /\ purpose = [t \in Tokens |-> "NONE"]
  /\ open = {}

(* Tokens expire, are superseded or revoked, or their enrollment fails.    *)
Close == open' \subseteq open /\ UNCHANGED <<credential, purpose>>

NewToken(t, for) ==
  /\ purpose[t] = "NONE"
  /\ purpose' = [purpose EXCEPT ![t] = for]
  /\ open' \subseteq open \cup {t}

IssueToken(t, for) == NewToken(t, for) /\ UNCHANGED credential

Retired(gone, as) == [c \in Credentials |-> IF c \in gone THEN as ELSE credential[c]]

(* c is issued, and the active credentials in gone are no longer valid.    *)
Issue(c, gone) ==
  /\ credential[c] = "ABSENT"
  /\ credential' = [Retired(gone, "ROTATED") EXCEPT ![c] = "ACTIVE"]
  /\ UNCHANGED purpose

Enroll(t, c, gone) ==
  /\ t \in open
  /\ gone # {} => purpose[t] = "ROTATE"
  /\ Issue(c, gone)
  /\ open' = open \ {t}

(* An agent trades its credential, which may have been retired meanwhile.  *)
Succeed(c, d, gone) ==
  /\ credential[c] # "ABSENT"
  /\ Issue(d, gone)
  /\ UNCHANGED open

(* Revocation, rotation or removal by an operator; a rotation may bring    *)
(* the token to enroll with at once, or later.                             *)
Retire(gone, as) ==
  /\ credential' = Retired(gone, as)
  /\ \/ open' \subseteq open /\ UNCHANGED purpose
     \/ \E t \in Tokens : NewToken(t, "ROTATE")

Next ==
  \/ Close
  \/ \E t \in Tokens, for \in {"ENROLL", "ROTATE"} : IssueToken(t, for)
  \/ \E gone \in SUBSET Active :
       \/ \E t \in Tokens, c \in Credentials : Enroll(t, c, gone)
       \/ \E c, d \in Credentials : Succeed(c, d, gone)
       \/ \E as \in {"ROTATED", "REVOKED"} : Retire(gone, as)

Spec == Init /\ [][Next]_vars
=============================================================================
