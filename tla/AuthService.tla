----------------------------- MODULE AuthService -----------------------------
(***************************************************************************)
(* What auth-service promises those who hold refresh tokens, as if each    *)
(* refresh were carried out at one moment: the current token of a live     *)
(* session is traded for the next one, and a refresh is answered with      *)
(* REFRESH_TOKEN_REUSE, which ends the session, only for a token that was  *)
(* traded past the grace or twice removed, or when the session was over.   *)
(*                                                                         *)
(* A token is named by its age: 0 is the current token of its session, 1   *)
(* the previous one, 2 any before.  Refreshes have no identity: two with   *)
(* the same token are one until one of them leaves.                        *)
(***************************************************************************)
EXTENDS Naturals

CONSTANT SessionIds

VARIABLES
  session,  \* session[s]: absent, live or over
  fresh,    \* live sessions rotated less than REFRESH_REUSE_GRACE_MS ago
  abroad,   \* tokens of the refreshes under way
  accused   \* sessions of which a refresh was answered REFRESH_TOKEN_REUSE

vars == <<session, fresh, abroad, accused>>

Token == [session : SessionIds, age : 0..2]

Init ==
  /\ session = [s \in SessionIds |-> "absent"]
  /\ fresh = {}
  /\ abroad = {}
  /\ accused = {}

Login(s) ==
  /\ session[s] = "absent"
  /\ session' = [session EXCEPT ![s] = "live"]
  /\ UNCHANGED <<fresh, abroad, accused>>

Present(x) ==
  /\ session[x.session] # "absent"
  /\ abroad' = abroad \cup {x}
  /\ UNCHANGED <<session, fresh, accused>>

(* Tokens under way after a refresh with x has left.                       *)
Without(x) == {abroad, abroad \ {x}}

(* Rotation makes all tokens of the session that are out one older.        *)
Aged(y, s) == IF y.session = s THEN [y EXCEPT !.age = IF @ = 2 THEN 2 ELSE @ + 1] ELSE y

Trade(x) ==
  /\ x.age = 0 /\ session[x.session] = "live"
  /\ \E rest \in Without(x) : abroad' = {Aged(y, x.session) : y \in rest}
  /\ fresh' = fresh \cup {x.session}
  /\ UNCHANGED <<session, accused>>

(* Refused, failed or given up: nothing comes of it.                       *)
Refuse(x) == abroad' \in Without(x) /\ UNCHANGED <<session, fresh, accused>>

IsReuse(x) == x.age = 2 \/ (x.age = 1 /\ x.session \notin fresh)

Accuse(x) ==
  /\ session[x.session] = "over" \/ IsReuse(x)
  /\ session' = [session EXCEPT ![x.session] = "over"]
  /\ fresh' = fresh \ {x.session}
  /\ accused' = accused \cup {x.session}
  /\ abroad' \in Without(x)

(* Logout, an administrator, expiry.                                       *)
End(S) ==
  /\ session' = [s \in SessionIds |-> IF s \in S /\ session[s] = "live" THEN "over" ELSE session[s]]
  /\ fresh' = fresh \ S
  /\ UNCHANGED <<abroad, accused>>

GraceEnds(S) == fresh' = fresh \ S /\ UNCHANGED <<session, abroad, accused>>

Next ==
  \/ \E s \in SessionIds : Login(s)
  \/ \E x \in Token : Present(x)
  \/ \E x \in abroad : Trade(x) \/ Refuse(x) \/ Accuse(x)
  \/ \E S \in SUBSET SessionIds : End(S) \/ GraceEnds(S)

Spec == Init /\ [][Next]_vars
=============================================================================
