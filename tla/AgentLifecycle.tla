---------------------------- MODULE AgentLifecycle ----------------------------
(***************************************************************************)
(* How the agent of one server is let in and shut out: enrollment tokens,  *)
(* agent credentials and the revocation of the server, as ServersService   *)
(* and AgentAuthService of server-service keep them.  No query spans two   *)
(* servers, so one is enough.                                              *)
(*                                                                         *)
(* A handler runs call by call, as in Operations.  A transaction that      *)
(* retires the rows it finds takes two steps: under READ COMMITTED its     *)
(* UPDATE sees the rows committed when it starts, and what another         *)
(* transaction inserts before it commits escapes it.                       *)
(***************************************************************************)
EXTENDS Integers, FiniteSets

CONSTANTS
  Credentials,  \* ids of credentials; bound: so many can be issued
  NoCredential, \* currentCredentialId is null
  Tokens,       \* enrollment tokens; bound: so many can be issued
  Handlers      \* handlers that may run at the same time

ASSUME AgentLifecycleAssumption ==
  /\ NoCredential \notin Credentials \cup Tokens
  /\ Credentials \cap Tokens = {}

VARIABLES
  status,      \* Server.status: REVOKED, or OPEN for every other status
  deleted,     \* Server.deletedAt is set
  current,     \* Server.currentCredentialId
  credential,  \* AgentCredential.status, or ABSENT
  purpose,     \* EnrollmentToken.purpose, or NONE for a token not issued yet
  usable,      \* the tokens neither used nor revoked nor expired
  origin,      \* history: the token or credential that credential c was issued for
  shut,        \* history: a revoke completed that nothing in flight can undo
  work         \* work[h]: the next database call of handler h

server == <<status, deleted, current>>
tokens == <<purpose, usable>>
vars == <<server, credential, tokens, origin, shut, work>>

----------------------------------------------------------------------------
Purposes == {"ENROLL", "ROTATE"}
Commands == {"revoke", "rotate", "remove"}

Active == {c \in Credentials : credential[c] = "ACTIVE"}
Issued == {t \in Tokens : purpose[t] # "NONE"}

Idle == [call |-> "none"]
ReadForToken == [call |-> "readForToken"]
Supersede(for) == [call |-> "supersede", for |-> for]
InsertToken(for, seen) == [call |-> "insertToken", for |-> for, seen |-> seen]
ReadForEnroll(t) == [call |-> "readForEnroll", with |-> t]
Replace(with) == [call |-> "replace", with |-> with]
Issue(with, seen) == [call |-> "issue", with |-> with, seen |-> seen]
ReadForBeat == [call |-> "readForBeat"]
Beat == [call |-> "beat"]
Retire(command) == [call |-> "retire", command |-> command]
Close(command, seen, open) ==
  [call |-> "close", command |-> command, seen |-> seen, open |-> open]
Mark(command) == [call |-> "mark", command |-> command]

Calls ==
  {Idle, ReadForToken, ReadForBeat, Beat}
    \cup [call : {"supersede"}, for : Purposes]
    \cup [call : {"insertToken"}, for : Purposes, seen : SUBSET Tokens]
    \cup [call : {"readForEnroll"}, with : Tokens]
    \cup [call : {"replace"}, with : Tokens \cup Credentials]
    \cup [call : {"issue"}, with : Tokens \cup Credentials, seen : SUBSET Credentials]
    \cup [call : {"retire", "mark"}, command : Commands]
    \cup [call : {"close"}, command : Commands,
          seen : SUBSET Credentials, open : SUBSET Tokens]

At(h, call) == work[h].call = call
Then(h, next) == work' = [work EXCEPT ![h] = next]

(* Any call may fail.  The transactions before it stay.                    *)
Abort(h) ==
  /\ work[h] # Idle
  /\ Then(h, Idle)
  /\ UNCHANGED <<server, credential, tokens, origin, shut>>

----------------------------------------------------------------------------
(* createEnrollmentToken(): requireServer asks only whether it is deleted. *)

TokenBegin(h) ==
  /\ work[h] = Idle
  /\ ~deleted
  /\ current = NoCredential
  /\ Then(h, Supersede("ENROLL"))
  /\ UNCHANGED <<server, credential, tokens, origin, shut>>

(* The call at the end of rotateCredential().                              *)
TokenForRotation(h) ==
  /\ At(h, "readForToken")
  /\ Then(h, IF deleted THEN Idle ELSE Supersede("ROTATE"))
  /\ UNCHANGED <<server, credential, tokens, origin, shut>>

TokenSupersede(h) ==
  /\ At(h, "supersede")
  /\ Then(h, InsertToken(work[h].for, usable))
  /\ UNCHANGED <<server, credential, tokens, origin, shut>>

TokenInsert(h) ==
  /\ At(h, "insertToken")
  /\ \E t \in Tokens \ Issued :
       /\ purpose' = [purpose EXCEPT ![t] = work[h].for]
       /\ usable' = (usable \ work[h].seen) \cup {t}
  /\ Then(h, Idle)
  /\ UNCHANGED <<server, credential, origin, shut>>

(* A token's TTL runs out.                                                 *)
TokenExpires(t) ==
  /\ t \in usable
  /\ usable' = usable \ {t}
  /\ UNCHANGED <<server, credential, purpose, origin, shut, work>>

----------------------------------------------------------------------------
(* enroll(): one UPDATE consumes the token, then the server is read, then  *)
(* a transaction issues the credential without looking at the server again.*)

ConsumableTwice == Issued
Consumable == usable

EnrollConsume(h, t) ==
  /\ work[h] = Idle
  /\ t \in Consumable
  /\ usable' = usable \ {t}
  /\ Then(h, ReadForEnroll(t))
  /\ UNCHANGED <<server, credential, purpose, origin, shut>>

EnrollAnyStatus(t) == ~deleted /\ (purpose[t] = "ENROLL" => current = NoCredential)
AcceptsEnrollment(t) ==
  /\ ~deleted
  /\ status # "REVOKED"
  /\ purpose[t] = "ENROLL" => current = NoCredential

EnrollRead(h) ==
  LET t == work[h].with IN
  /\ At(h, "readForEnroll")
  /\ Then(h, IF AcceptsEnrollment(t) THEN Replace(t) ELSE Idle)
  /\ UNCHANGED <<server, credential, tokens, origin, shut>>

(* The transaction of enroll() and of rotateFromAgent(): an enrollment for *)
(* rotation and an agent's rotation retire the active credentials first.   *)
Superseding(with) == with \in Credentials \/ purpose[with] = "ROTATE"

ReplaceSee(h) ==
  LET with == work[h].with IN
  /\ At(h, "replace")
  /\ Then(h, Issue(with, IF Superseding(with) THEN Active ELSE {}))
  /\ UNCHANGED <<server, credential, tokens, origin, shut>>

(* Of the rows in seen those that still are active get the status.         *)
Retired(seen, as) ==
  [c \in Credentials |-> IF c \in seen \cap Active THEN as ELSE credential[c]]

ReplaceIssue(h) ==
  /\ At(h, "issue")
  /\ \E c \in Credentials :
       /\ credential[c] = "ABSENT"
       /\ credential' = [Retired(work[h].seen, "ROTATED") EXCEPT ![c] = "ACTIVE"]
       /\ origin' = [origin EXCEPT ![c] = work[h].with]
       /\ current' = c
  /\ Then(h, Idle)
  /\ UNCHANGED <<status, deleted, tokens, shut>>

----------------------------------------------------------------------------
(* Requests of the agent.  Each route authenticates and then runs its      *)
(* handler; of those only heartbeat and rotation touch this state.         *)

Authenticates(c) == credential[c] = "ACTIVE" /\ ~deleted /\ status # "REVOKED"

HeartbeatBegin(h, c) ==
  /\ work[h] = Idle
  /\ Authenticates(c)
  /\ Then(h, ReadForBeat)
  /\ UNCHANGED <<server, credential, tokens, origin, shut>>

GoneIfDeleted == deleted
Gone == deleted \/ status = "REVOKED"

HeartbeatRead(h) ==
  /\ At(h, "readForBeat")
  /\ Then(h, IF Gone THEN Idle ELSE Beat)
  /\ UNCHANGED <<server, credential, tokens, origin, shut>>

(* The status computed from what was read is written unconditionally.      *)
HeartbeatWrite(h) ==
  /\ At(h, "beat")
  /\ status' = "OPEN"
  /\ Then(h, Idle)
  /\ UNCHANGED <<deleted, current, credential, tokens, origin, shut>>

RotateFromAgent(h, c) ==
  /\ work[h] = Idle
  /\ Authenticates(c)
  /\ Then(h, Replace(c))
  /\ UNCHANGED <<server, credential, tokens, origin, shut>>

----------------------------------------------------------------------------
(* revoke(), rotateCredential() and remove(): read the server, retire the  *)
(* active credentials and the unused tokens in one transaction, then       *)
(* update the server.  Only rotation reopens a revoked server.             *)

Accepts(command) ==
  IF command = "revoke" THEN status # "REVOKED" \/ deleted ELSE ~deleted

CommandBegin(h, command) ==
  /\ work[h] = Idle
  /\ Accepts(command)
  /\ Then(h, Retire(command))
  /\ shut' = (shut /\ command # "rotate")
  /\ UNCHANGED <<server, credential, tokens, origin>>

RetireSee(h) ==
  /\ At(h, "retire")
  /\ Then(h, Close(work[h].command, Active, usable))
  /\ UNCHANGED <<server, credential, tokens, origin, shut>>

(* The update of the tokens is a second statement: it also sees tokens     *)
(* committed since the first.                                              *)
RetireClose(h) ==
  /\ At(h, "close")
  /\ credential' =
       Retired(work[h].seen, IF work[h].command = "rotate" THEN "ROTATED" ELSE "REVOKED")
  /\ usable' \in SUBSET (usable \ work[h].open)
  /\ Then(h, Mark(work[h].command))
  /\ UNCHANGED <<server, purpose, origin, shut>>

(* The two that reopen a revoked server: a rotation under way, and a       *)
(* heartbeat past its read.                                                *)
Reopens(h) ==
  \/ At(h, "beat")
  \/ work[h].call \in {"retire", "close", "mark"} /\ work[h].command = "rotate"

CommandMark(h) ==
  LET command == work[h].command IN
  /\ At(h, "mark")
  /\ status' = IF command = "rotate" THEN "OPEN" ELSE "REVOKED"
  /\ deleted' = (deleted \/ command = "remove")
  /\ current' = NoCredential
  /\ shut' = IF command = "revoke" THEN \A g \in Handlers \ {h} : ~Reopens(g) ELSE shut
  /\ Then(h, IF command = "rotate" THEN ReadForToken ELSE Idle)
  /\ UNCHANGED <<credential, tokens, origin>>

----------------------------------------------------------------------------
(* A server as create() leaves it.                                         *)
Init ==
  /\ status = "OPEN"
  /\ deleted = FALSE
  /\ current = NoCredential
  /\ credential = [c \in Credentials |-> "ABSENT"]
  /\ purpose = [t \in Tokens |-> "NONE"]
  /\ usable = {}
  /\ origin = [c \in Credentials |-> NoCredential]
  /\ shut = FALSE
  /\ work = [h \in Handlers |-> Idle]

Handle(h) ==
  \/ TokenBegin(h)
  \/ TokenForRotation(h)
  \/ TokenSupersede(h)
  \/ TokenInsert(h)
  \/ \E t \in Tokens : EnrollConsume(h, t)
  \/ EnrollRead(h)
  \/ ReplaceSee(h)
  \/ ReplaceIssue(h)
  \/ \E c \in Credentials : HeartbeatBegin(h, c) \/ RotateFromAgent(h, c)
  \/ HeartbeatRead(h)
  \/ HeartbeatWrite(h)
  \/ \E command \in Commands : CommandBegin(h, command)
  \/ RetireSee(h)
  \/ RetireClose(h)
  \/ CommandMark(h)
  \/ Abort(h)

Next ==
  \/ \E h \in Handlers : Handle(h)
  \/ \E t \in Tokens : TokenExpires(t)

Spec == Init /\ [][Next]_vars

----------------------------------------------------------------------------
(* Properties *)

(* Types of the rows, of the histories and of what handlers remember; the  *)
(* server never refers to a credential that does not exist.                *)
TypeOK ==
  /\ status \in {"OPEN", "REVOKED"}
  /\ deleted \in BOOLEAN
  /\ current \in Credentials \cup {NoCredential}
  /\ credential \in [Credentials -> {"ABSENT", "ACTIVE", "ROTATED", "REVOKED"}]
  /\ current \in Credentials => credential[current] # "ABSENT"
  /\ purpose \in [Tokens -> Purposes \cup {"NONE"}]
  /\ usable \subseteq Tokens
  /\ origin \in [Credentials -> Tokens \cup Credentials \cup {NoCredential}]
  /\ shut \in BOOLEAN
  /\ work \in [Handlers -> Calls]

(* A token enrolls once: of requests that race with the same token at most *)
(* one gets a credential, whatever fails or is superseded meanwhile.       *)
OneCredentialPerToken ==
  \A c, d \in Credentials : origin[c] \in Tokens /\ origin[c] = origin[d] => c = d

(* A revoke that completes while no heartbeat is past its read and no      *)
(* rotation is under way shuts the agent out until an operator rotates:    *)
(* new tokens, enrollments and rotations by agents in flight change        *)
(* nothing, authenticate() and enroll() refuse a revoked server.           *)
RevocationHolds == shut => status = "REVOKED"

(* docs/server-service.md on revoke, docs/architecture.md on REVOKED: the  *)
(* agent is rejected immediately.  Only rotateCredential(), an operator's  *)
(* command, may reopen a revoked server.                                   *)
RevokedUntilRotated ==
  [][status = "REVOKED" /\ status' # "REVOKED" /\ ~deleted =>
       \E h \in Handlers : At(h, "mark") /\ work[h].command = "rotate"]_vars

(* From the moment a server is deleted, or revoked with no heartbeat past  *)
(* its read and no rotation under way, nobody new gets past authenticate() *)
(* or the check of enroll(), though writes in flight may still issue       *)
(* credentials or change the status of a deleted server.                   *)
LetIn(h) == work[h].call \in {"readForBeat", "beat", "replace", "issue"}
ShutOut ==
  [][/\ deleted => deleted'
     /\ deleted \/ shut => \A h \in Handlers : LetIn(h)' => LetIn(h)]_vars

(* A credential that was rotated or revoked is never used again, and a     *)
(* later command does not change how it ended.                             *)
RetiredForever ==
  [][\A c \in Credentials :
       credential[c] \in {"ROTATED", "REVOKED"} => credential'[c] = credential[c]]_vars

(* A token that a request has consumed still opens the door, for that      *)
(* request alone: enrollments, rotations and commands, wherever other      *)
(* calls come between theirs, have outcomes that AgentAccess allows with   *)
(* each enrollment at one moment.                                          *)
Holds(h, t) ==
  work[h].call \in {"readForEnroll", "replace", "issue"} /\ work[h].with = t
Held == {t \in Tokens : \E h \in Handlers : Holds(h, t)}

Access == INSTANCE AgentAccess WITH open <- usable \cup Held

ImplementsAgentAccess == Access!Spec

----------------------------------------------------------------------------
(* The inductive invariant *)

(* A token is usable, held by one request that consumed it, or spent.      *)
TokenInv ==
  /\ usable \subseteq Issued
  /\ \A c \in Credentials : origin[c] \in Tokens => origin[c] \in Issued \ usable
  /\ \A t \in Tokens, h \in Handlers : Holds(h, t) =>
       /\ t \in Issued \ usable
       /\ \A c \in Credentials : origin[c] # t
       /\ \A g \in Handlers : Holds(g, t) => g = h

(* What an agent presents to rotate was issued to it, and a request that   *)
(* has seen credentials to retire was made for that.                       *)
PresentedInv ==
  \A h \in Handlers :
    /\ \A c \in Credentials : Holds(h, c) => credential[c] # "ABSENT"
    /\ At(h, "issue") /\ work[h].seen # {} => Superseding(work[h].with)

ShutInv == shut => status = "REVOKED" /\ \A h \in Handlers : ~Reopens(h)

IInv == TypeOK /\ TokenInv /\ PresentedInv /\ ShutInv /\ OneCredentialPerToken

=============================================================================
