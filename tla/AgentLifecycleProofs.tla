------------------------- MODULE AgentLifecycleProofs -------------------------
(***************************************************************************)
(* Theorems about AgentLifecycle, for every set of handlers, tokens and    *)
(* credentials.                                                            *)
(***************************************************************************)
EXTENDS AgentLifecycle, TLAPS

LEMMA CallTypes ==
  /\ {Idle, ReadForToken, ReadForBeat, Beat} \subseteq Calls
  /\ \A p \in Purposes : Supersede(p) \in Calls
  /\ \A p \in Purposes, seen \in SUBSET Tokens : InsertToken(p, seen) \in Calls
  /\ \A t \in Tokens : ReadForEnroll(t) \in Calls
  /\ \A w \in Tokens \cup Credentials : Replace(w) \in Calls
  /\ \A w \in Tokens \cup Credentials, seen \in SUBSET Credentials : Issue(w, seen) \in Calls
  /\ \A m \in Commands : Retire(m) \in Calls /\ Mark(m) \in Calls
  /\ \A m \in Commands, seen \in SUBSET Credentials, open \in SUBSET Tokens :
       Close(m, seen, open) \in Calls
BY DEF Calls, Supersede, InsertToken, ReadForEnroll, Replace, Issue, Retire, Mark, Close

LEMMA CallFields ==
  ASSUME NEW c \in Calls
  PROVE  /\ c.call \in {"supersede", "insertToken"} => c.for \in Purposes
         /\ c.call = "insertToken" => c.seen \in SUBSET Tokens
         /\ c.call = "readForEnroll" => c.with \in Tokens
         /\ c.call \in {"replace", "issue"} => c.with \in Tokens \cup Credentials
         /\ c.call = "issue" => c.seen \in SUBSET Credentials
         /\ c.call \in {"retire", "close", "mark"} => c.command \in Commands
         /\ c.call = "close" => c.seen \in SUBSET Credentials /\ c.open \in SUBSET Tokens
BY DEF Calls, Idle, ReadForToken, ReadForBeat, Beat

LEMMA InitIInv == Init => IInv
<1>. SUFFICES ASSUME Init PROVE IInv
  OBVIOUS
<1>1. TypeOK
  BY CallTypes, AgentLifecycleAssumption DEF Init, TypeOK
<1>2. TokenInv /\ PresentedInv /\ ShutInv /\ OneCredentialPerToken
  BY AgentLifecycleAssumption
  DEF Init, TokenInv, PresentedInv, Holds, At, ShutInv, OneCredentialPerToken, Idle
<1>. QED
  BY <1>1, <1>2 DEF IInv

(* Types                                                                   *)
LEMMA StepTypeOK == TypeOK /\ [Next]_vars => TypeOK'
<1>. SUFFICES ASSUME TypeOK, [Next]_vars PROVE TypeOK'
  OBVIOUS
<1>0. work \in [Handlers -> Calls]
  BY DEF TypeOK
<1>1. ASSUME NEW h \in Handlers, NEW c \in Calls, Then(h, c),
             UNCHANGED <<server, credential, tokens, origin, shut>>
      PROVE  TypeOK'
  BY <1>1 DEF TypeOK, Then, server, tokens
<1>2. ASSUME NEW h \in Handlers, Handle(h) PROVE TypeOK'
  <2>0. work[h] \in Calls
    BY <1>0
  <2>1. CASE TokenBegin(h) \/ TokenForRotation(h) \/ HeartbeatRead(h) \/ Abort(h)
    BY <1>1, <2>1, CallTypes DEF TokenBegin, TokenForRotation, HeartbeatRead, Abort, Purposes
  <2>2. CASE TokenSupersede(h)
    BY <1>1, <2>0, <2>2, CallTypes, CallFields DEF TokenSupersede, At, TypeOK
  <2>3. CASE TokenInsert(h)
    BY <2>0, <2>3, CallTypes, CallFields DEF TokenInsert, At, TypeOK, Then, server, Issued
  <2>4. ASSUME NEW t \in Tokens, EnrollConsume(h, t) PROVE TypeOK'
    BY <2>4, CallTypes DEF EnrollConsume, TypeOK, Then, server
  <2>5. CASE EnrollRead(h)
    BY <1>1, <2>0, <2>5, CallTypes, CallFields DEF EnrollRead, At
  <2>6. CASE ReplaceSee(h)
    <3>1. (IF Superseding(work[h].with) THEN Active ELSE {}) \in SUBSET Credentials
      BY DEF Active
    <3>. QED
      BY <1>1, <2>0, <2>6, <3>1, CallTypes, CallFields DEF ReplaceSee, At, Active
  <2>7. CASE ReplaceIssue(h)
    BY <2>0, <2>7, CallTypes, CallFields
    DEF ReplaceIssue, At, TypeOK, Then, Retired, tokens
  <2>8. ASSUME NEW c \in Credentials, HeartbeatBegin(h, c) \/ RotateFromAgent(h, c)
        PROVE  TypeOK'
    BY <1>1, <2>8, CallTypes DEF HeartbeatBegin, RotateFromAgent
  <2>9. CASE HeartbeatWrite(h)
    BY <2>9, CallTypes DEF HeartbeatWrite, TypeOK, Then, tokens
  <2>10. ASSUME NEW m \in Commands, CommandBegin(h, m) PROVE TypeOK'
    BY <2>10, CallTypes DEF CommandBegin, TypeOK, Then, server, tokens
  <2>11. CASE RetireSee(h)
    BY <1>1, <2>0, <2>11, CallTypes, CallFields DEF RetireSee, At, Active, TypeOK
  <2>12. CASE RetireClose(h)
    BY <2>0, <2>12, CallTypes, CallFields
    DEF RetireClose, At, TypeOK, Then, Retired, server
  <2>13. CASE CommandMark(h)
    BY <2>0, <2>13, CallTypes, CallFields, AgentLifecycleAssumption
    DEF CommandMark, At, TypeOK, Then, tokens
  <2>. QED
    BY <1>2, <2>1, <2>2, <2>3, <2>4, <2>5, <2>6, <2>7, <2>8, <2>9, <2>10, <2>11,
       <2>12, <2>13 DEF Handle
<1>3. ASSUME NEW t \in Tokens, TokenExpires(t) PROVE TypeOK'
  BY <1>3 DEF TokenExpires, TypeOK, server
<1>4. CASE UNCHANGED vars
  BY <1>4 DEF vars, TypeOK, server, tokens
<1>. QED
  BY <1>2, <1>3, <1>4 DEF Next

----------------------------------------------------------------------------
(* Tokens                                                                  *)

(* A step that issues no token or credential, and after which a handler    *)
(* holds no token it did not hold before, keeps the accounts of tokens.    *)
LEMMA TokenFrame ==
  ASSUME TokenInv, OneCredentialPerToken, UNCHANGED <<purpose, origin>>,
         usable' \subseteq usable,
         \A g \in Handlers, t \in Tokens : Holds(g, t)' => Holds(g, t)
  PROVE  TokenInv' /\ OneCredentialPerToken'
BY DEF TokenInv, OneCredentialPerToken, Issued

LEMMA StepTokenInv ==
  TypeOK /\ TokenInv /\ OneCredentialPerToken /\ [Next]_vars
    => TokenInv' /\ OneCredentialPerToken'
<1>. SUFFICES ASSUME TypeOK, TokenInv, OneCredentialPerToken, [Next]_vars
              PROVE  TokenInv' /\ OneCredentialPerToken'
  OBVIOUS
<1>0. work \in [Handlers -> Calls] /\ usable \subseteq Tokens
      /\ purpose \in [Tokens -> Purposes \cup {"NONE"}]
      /\ origin \in [Credentials -> Tokens \cup Credentials \cup {NoCredential}]
  BY DEF TypeOK
<1>1. ASSUME NEW h \in Handlers, NEW c, Then(h, c), UNCHANGED <<purpose, origin>>,
             usable' \subseteq usable,
             c.call \notin {"readForEnroll", "replace", "issue"}
      PROVE  TokenInv' /\ OneCredentialPerToken'
  BY <1>0, <1>1, TokenFrame DEF Then, Holds
<1>2. ASSUME NEW h \in Handlers, Handle(h)
      PROVE  TokenInv' /\ OneCredentialPerToken'
  <2>0. Idle.call = "none" /\ ReadForToken.call = "readForToken"
        /\ ReadForBeat.call = "readForBeat" /\ Beat.call = "beat"
        /\ (\A p : Supersede(p).call = "supersede")
        /\ (\A p, seen : InsertToken(p, seen).call = "insertToken")
        /\ (\A m : Retire(m).call = "retire" /\ Mark(m).call = "mark")
        /\ (\A m, seen, open : Close(m, seen, open).call = "close")
    BY DEF Idle, ReadForToken, ReadForBeat, Beat, Supersede, InsertToken, Retire, Mark, Close
  <2>1. CASE TokenBegin(h) \/ TokenForRotation(h) \/ TokenSupersede(h)
    BY <1>1, <2>0, <2>1 DEF TokenBegin, TokenForRotation, TokenSupersede, tokens
  <2>2. CASE HeartbeatRead(h) \/ HeartbeatWrite(h) \/ Abort(h)
    BY <1>1, <2>0, <2>2 DEF HeartbeatRead, HeartbeatWrite, Abort, tokens
  <2>3. CASE RetireSee(h) \/ CommandMark(h) \/ \E m \in Commands : CommandBegin(h, m)
    BY <1>1, <2>0, <2>3 DEF RetireSee, CommandMark, CommandBegin, tokens
  <2>4. CASE RetireClose(h)
    <3>1. usable' \subseteq usable /\ UNCHANGED <<purpose, origin>>
          /\ Then(h, Mark(work[h].command))
      BY <2>4 DEF RetireClose
    <3>. QED
      BY <1>1, <2>0, <3>1
  <2>5. CASE TokenInsert(h)
    <3>1. PICK t \in Tokens \ Issued :
            /\ purpose' = [purpose EXCEPT ![t] = work[h].for]
            /\ usable' = (usable \ work[h].seen) \cup {t}
      BY <2>5 DEF TokenInsert
    <3>2. UNCHANGED origin /\ Then(h, Idle) /\ work[h].for \in Purposes
      BY <1>0, <2>5, CallFields DEF TokenInsert, At
    <3>3. Issued' = Issued \cup {t}
      BY <1>0, <3>1, <3>2 DEF Issued, Purposes
    <3>4. \A g \in Handlers, u \in Tokens : Holds(g, u)' => Holds(g, u)
      BY <1>0, <2>0, <3>2 DEF Holds, Then
    <3>. QED
      BY <3>1, <3>2, <3>3, <3>4 DEF TokenInv, OneCredentialPerToken
  <2>6. ASSUME NEW t \in Tokens, EnrollConsume(h, t)
        PROVE  TokenInv' /\ OneCredentialPerToken'
    <3>1. /\ t \in usable /\ usable' = usable \ {t}
          /\ work' = [work EXCEPT ![h] = ReadForEnroll(t)]
          /\ UNCHANGED <<purpose, origin>>
      BY <2>6 DEF EnrollConsume, Consumable, Then
    <3>2. /\ t \in Issued /\ \A c \in Credentials : origin[c] # t
          /\ \A g \in Handlers : ~Holds(g, t)
      BY <3>1 DEF TokenInv
    <3>3. \A g \in Handlers, u \in Tokens :
            Holds(g, u)' <=> IF g = h THEN u = t ELSE Holds(g, u)
      BY <1>0, <3>1 DEF Holds, ReadForEnroll
    <3>. QED
      BY <3>1, <3>2, <3>3 DEF TokenInv, OneCredentialPerToken, Issued
  <2>7. CASE EnrollRead(h)
    <3>1. \A g \in Handlers, u \in Tokens : Holds(g, u)' => Holds(g, u)
      BY <1>0, <2>0, <2>7 DEF EnrollRead, At, Then, Holds, Replace
    <3>. QED
      BY <2>7, <3>1, TokenFrame DEF EnrollRead, tokens
  <2>8. CASE ReplaceSee(h)
    <3>1. \A g \in Handlers, u \in Tokens : Holds(g, u)' => Holds(g, u)
      BY <1>0, <2>8 DEF ReplaceSee, At, Then, Holds, Issue
    <3>. QED
      BY <2>8, <3>1, TokenFrame DEF ReplaceSee, tokens
  <2>9. CASE ReplaceIssue(h)
    <3>. DEFINE with == work[h].with
    <3>1. PICK c \in Credentials : origin' = [origin EXCEPT ![c] = with]
      BY <2>9 DEF ReplaceIssue
    <3>2. /\ UNCHANGED <<purpose, usable>>
          /\ work' = [work EXCEPT ![h] = Idle]
          /\ work[h].call = "issue"
      BY <2>9 DEF ReplaceIssue, tokens, Then, At
    <3>3. with \in Tokens =>
            /\ with \in Issued \ usable
            /\ \A d \in Credentials : origin[d] # with
            /\ \A g \in Handlers : Holds(g, with) => g = h
      BY <3>2 DEF TokenInv, Holds
    <3>4. \A g \in Handlers, u \in Tokens : Holds(g, u)' => Holds(g, u) /\ g # h
      BY <1>0, <2>0, <3>2 DEF Holds
    <3>5. \A d \in Credentials : origin'[d] = IF d = c THEN with ELSE origin[d]
      BY <1>0, <3>1
    <3>6. OneCredentialPerToken'
      BY <3>3, <3>5 DEF OneCredentialPerToken
    <3>7. \A g \in Handlers, u \in Tokens :
            Holds(g, u)' => u # with
      BY <3>3, <3>4
    <3>8. TokenInv'
      BY <3>2, <3>3, <3>4, <3>5, <3>7 DEF TokenInv, Issued
    <3>. QED
      BY <3>6, <3>8
  <2>10. ASSUME NEW c \in Credentials, HeartbeatBegin(h, c)
         PROVE  TokenInv' /\ OneCredentialPerToken'
    BY <1>1, <2>0, <2>10 DEF HeartbeatBegin, tokens
  <2>11. ASSUME NEW c \in Credentials, RotateFromAgent(h, c)
         PROVE  TokenInv' /\ OneCredentialPerToken'
    <3>1. \A g \in Handlers, u \in Tokens : Holds(g, u)' => Holds(g, u)
      BY <1>0, <2>11, AgentLifecycleAssumption DEF RotateFromAgent, Then, Holds, Replace
    <3>. QED
      BY <2>11, <3>1, TokenFrame DEF RotateFromAgent, tokens
  <2>. QED
    BY <1>2, <2>1, <2>2, <2>3, <2>4, <2>5, <2>6, <2>7, <2>8, <2>9, <2>10, <2>11 DEF Handle
<1>3. ASSUME NEW t \in Tokens, TokenExpires(t) PROVE TokenInv' /\ OneCredentialPerToken'
  BY <1>3, TokenFrame DEF TokenExpires, Holds
<1>4. CASE UNCHANGED vars
  BY <1>4, TokenFrame DEF vars, tokens, Holds
<1>. QED
  BY <1>2, <1>3, <1>4 DEF Next

(* A rotation holds the credential it was asked with, and none that was    *)
(* issued is forgotten.                                                    *)
LEMMA StepPresented ==
  ASSUME TypeOK, PresentedInv, [Next]_vars,
         NEW g \in Handlers, NEW c \in Credentials, Holds(g, c)'
  PROVE  credential'[c] # "ABSENT"
<1>0. work \in [Handlers -> Calls]
      /\ credential \in [Credentials -> {"ABSENT", "ACTIVE", "ROTATED", "REVOKED"}]
  BY DEF TypeOK
<1>1. credential[c] # "ABSENT" => credential'[c] # "ABSENT"
  <2>1. ASSUME NEW h \in Handlers, ReplaceIssue(h)
        PROVE  credential'[c] = "ABSENT" => credential[c] = "ABSENT"
    BY <1>0, <2>1 DEF ReplaceIssue, Retired
  <2>2. ASSUME NEW h \in Handlers, RetireClose(h)
        PROVE  credential'[c] = "ABSENT" => credential[c] = "ABSENT"
    BY <1>0, <2>2 DEF RetireClose, Retired
  <2>. QED
    BY <2>1, <2>2 DEF Next, Handle, vars, TokenBegin, TokenForRotation,
       TokenSupersede, TokenInsert, EnrollConsume, EnrollRead, ReplaceSee,
       HeartbeatBegin, RotateFromAgent, HeartbeatRead, HeartbeatWrite, CommandBegin,
       RetireSee, CommandMark, Abort, TokenExpires
<1>2. Holds(g, c) \/ credential[c] = "ACTIVE"
  <2>1. ASSUME NEW h \in Handlers, NEW x, Then(h, x),
               x.call \in {"readForEnroll", "replace", "issue"} /\ x.with = c =>
                 Holds(h, c) \/ credential[c] = "ACTIVE"
        PROVE  Holds(g, c) \/ credential[c] = "ACTIVE"
    BY <1>0, <2>1 DEF Then, Holds
  <2>2. ASSUME NEW h \in Handlers, Handle(h) PROVE Holds(g, c) \/ credential[c] = "ACTIVE"
    <3>1. /\ Idle.call = "none" /\ ReadForToken.call = "readForToken"
          /\ ReadForBeat.call = "readForBeat" /\ Beat.call = "beat"
          /\ (\A p : Supersede(p).call = "supersede")
          /\ (\A p, seen : InsertToken(p, seen).call = "insertToken")
          /\ (\A m : Retire(m).call = "retire" /\ Mark(m).call = "mark")
          /\ (\A m, seen, open : Close(m, seen, open).call = "close")
          /\ (\A w : ReadForEnroll(w).with = w /\ Replace(w).with = w)
          /\ (\A w, seen : Issue(w, seen).with = w)
      BY DEF Idle, ReadForToken, ReadForBeat, Beat, Supersede, InsertToken, Retire, Mark, Close,
             ReadForEnroll, Replace, Issue
    <3>2. CASE TokenBegin(h) \/ TokenForRotation(h) \/ TokenSupersede(h) \/ TokenInsert(h)
      BY <2>1, <3>1, <3>2 DEF TokenBegin, TokenForRotation, TokenSupersede, TokenInsert
    <3>3. CASE \E t \in Tokens : EnrollConsume(h, t)
      BY <2>1, <3>1, <3>3, AgentLifecycleAssumption DEF EnrollConsume
    <3>4. CASE EnrollRead(h) \/ ReplaceSee(h)
      BY <2>1, <3>1, <3>4 DEF EnrollRead, ReplaceSee, At, Holds
    <3>5. CASE ReplaceIssue(h) \/ HeartbeatRead(h) \/ HeartbeatWrite(h) \/ Abort(h)
      BY <2>1, <3>1, <3>5 DEF ReplaceIssue, HeartbeatRead, HeartbeatWrite, Abort
    <3>6. CASE \E d \in Credentials : HeartbeatBegin(h, d) \/ RotateFromAgent(h, d)
      BY <2>1, <3>1, <3>6 DEF HeartbeatBegin, RotateFromAgent, Authenticates
    <3>7. CASE RetireSee(h) \/ RetireClose(h) \/ CommandMark(h) \/ \E m \in Commands : CommandBegin(h, m)
      BY <2>1, <3>1, <3>7 DEF RetireSee, RetireClose, CommandMark, CommandBegin
    <3>. QED
      BY <2>2, <3>2, <3>3, <3>4, <3>5, <3>6, <3>7 DEF Handle
  <2>3. (\E t \in Tokens : TokenExpires(t)) \/ UNCHANGED vars => Holds(g, c)
    BY DEF TokenExpires, vars, Holds
  <2>. QED
    BY <2>2, <2>3 DEF Next
<1>. QED
  BY <1>1, <1>2 DEF PresentedInv

(* The purpose of a token is what it was issued with.                      *)
LEMMA StepSuperseding ==
  ASSUME TypeOK, TokenInv, PresentedInv, [Next]_vars,
         NEW g \in Handlers, At(g, "issue")', work'[g].seen # {}
  PROVE  Superseding(work[g].with)'
<1>0. work \in [Handlers -> Calls] /\ purpose \in [Tokens -> Purposes \cup {"NONE"}]
  BY DEF TypeOK
<1>1. \A t \in Issued : purpose'[t] = purpose[t]
  <2>1. ASSUME NEW h \in Handlers, TokenInsert(h) PROVE \A t \in Issued : purpose'[t] = purpose[t]
    BY <1>0, <2>1 DEF TokenInsert, Issued
  <2>. QED
    BY <2>1 DEF Next, Handle, vars, tokens, TokenBegin, TokenForRotation,
       TokenSupersede, EnrollConsume, EnrollRead, ReplaceSee, ReplaceIssue, RetireClose,
       HeartbeatBegin, RotateFromAgent, HeartbeatRead, HeartbeatWrite, CommandBegin,
       RetireSee, CommandMark, Abort, TokenExpires
<1>2. \A h \in Handlers : \A x : Then(h, x) => work'[g] = (IF g = h THEN x ELSE work[g])
  BY <1>0 DEF Then
<1>3. Superseding(work[g].with) /\ Holds(g, work[g].with) /\ work'[g].with = work[g].with
  <2>1. CASE work'[g] = work[g]
    BY <2>1 DEF At, PresentedInv, Holds
  <2>2. ASSUME NEW h \in Handlers, Handle(h), work'[g] # work[g]
        PROVE  ReplaceSee(g)
    <3>1. /\ Idle.call = "none" /\ ReadForToken.call = "readForToken"
          /\ ReadForBeat.call = "readForBeat" /\ Beat.call = "beat"
          /\ (\A p : Supersede(p).call = "supersede")
          /\ (\A p, seen : InsertToken(p, seen).call = "insertToken")
          /\ (\A m : Retire(m).call = "retire" /\ Mark(m).call = "mark")
          /\ (\A m, seen, open : Close(m, seen, open).call = "close")
          /\ (\A w : ReadForEnroll(w).call = "readForEnroll" /\ Replace(w).call = "replace")
      BY DEF Idle, ReadForToken, ReadForBeat, Beat, Supersede, InsertToken, Retire, Mark, Close,
             ReadForEnroll, Replace
    <3>2. ASSUME NEW x, Then(h, x), x.call # "issue" PROVE FALSE
      BY <1>2, <2>2, <3>2 DEF At
    <3>3. CASE TokenBegin(h) \/ TokenForRotation(h) \/ TokenSupersede(h) \/ TokenInsert(h)
      BY <3>1, <3>2, <3>3 DEF TokenBegin, TokenForRotation, TokenSupersede, TokenInsert
    <3>4. CASE EnrollRead(h) \/ \E t \in Tokens : EnrollConsume(h, t)
      BY <3>1, <3>2, <3>4 DEF EnrollConsume, EnrollRead
    <3>5. CASE ReplaceIssue(h) \/ HeartbeatRead(h) \/ HeartbeatWrite(h) \/ Abort(h)
      BY <3>1, <3>2, <3>5 DEF ReplaceIssue, HeartbeatRead, HeartbeatWrite, Abort
    <3>6. CASE \E d \in Credentials : HeartbeatBegin(h, d) \/ RotateFromAgent(h, d)
      BY <3>1, <3>2, <3>6 DEF HeartbeatBegin, RotateFromAgent
    <3>7. CASE RetireSee(h) \/ RetireClose(h) \/ CommandMark(h) \/ \E m \in Commands : CommandBegin(h, m)
      BY <3>1, <3>2, <3>7 DEF RetireSee, RetireClose, CommandMark, CommandBegin
    <3>8. CASE ReplaceSee(h)
      BY <1>2, <2>2, <3>8 DEF ReplaceSee
    <3>. QED
      BY <2>2, <3>3, <3>4, <3>5, <3>6, <3>7, <3>8 DEF Handle
  <2>3. (\E t \in Tokens : TokenExpires(t)) \/ UNCHANGED vars => work' = work
    BY DEF TokenExpires, vars
  <2>4. CASE ReplaceSee(g)
    <3>1. At(g, "replace") /\ work'[g] = Issue(work[g].with, IF Superseding(work[g].with) THEN Active ELSE {})
      BY <1>2, <2>4 DEF ReplaceSee
    <3>. QED
      BY <3>1 DEF Issue, At, Holds
  <2>. QED
    BY <2>1, <2>2, <2>3, <2>4 DEF Next
<1>4. work[g].with \in Tokens => work[g].with \in Issued
  BY <1>3 DEF TokenInv
<1>5. CASE work[g].with \in Tokens
  BY <1>1, <1>3, <1>4, <1>5 DEF Superseding
<1>6. CASE work[g].with \notin Tokens
  <2>1. work[g].with \in Credentials
    BY <1>0, <1>3, <1>6, CallFields DEF Holds
  <2>. QED
    BY <1>3, <2>1 DEF Superseding
<1>. QED
  BY <1>5, <1>6

LEMMA StepPresentedInv == TypeOK /\ TokenInv /\ PresentedInv /\ [Next]_vars => PresentedInv'
BY StepPresented, StepSuperseding DEF PresentedInv

----------------------------------------------------------------------------
(* Revocation                                                              *)

LEMMA StepShutInv == TypeOK /\ ShutInv /\ [Next]_vars => ShutInv'
<1>. SUFFICES ASSUME TypeOK, ShutInv, [Next]_vars PROVE ShutInv'
  OBVIOUS
<1>0. work \in [Handlers -> Calls] /\ shut \in BOOLEAN
  BY DEF TypeOK
<1>1. ASSUME NEW h \in Handlers, NEW c, Then(h, c), UNCHANGED <<status, shut>>,
             \/ c.call \notin {"beat", "retire", "close", "mark"}
             \/ Reopens(h)
             \/ c.call \in {"retire", "close", "mark"} /\ c.command # "rotate"
      PROVE  ShutInv'
  BY <1>0, <1>1 DEF ShutInv, Then, Reopens, At
<1>2. ASSUME NEW h \in Handlers, Handle(h) PROVE ShutInv'
  <2>0. Idle.call = "none" /\ ReadForToken.call = "readForToken"
        /\ ReadForBeat.call = "readForBeat" /\ Beat.call = "beat"
        /\ (\A p : Supersede(p).call = "supersede")
        /\ (\A p, seen : InsertToken(p, seen).call = "insertToken")
        /\ (\A t : ReadForEnroll(t).call = "readForEnroll" /\ Replace(t).call = "replace")
        /\ (\A t, seen : Issue(t, seen).call = "issue")
        /\ (\A m : Retire(m).call = "retire" /\ Retire(m).command = m)
        /\ (\A m : Mark(m).call = "mark" /\ Mark(m).command = m)
        /\ (\A m, seen, open :
             Close(m, seen, open).call = "close" /\ Close(m, seen, open).command = m)
    BY DEF Idle, ReadForToken, ReadForBeat, Beat, Supersede, InsertToken, ReadForEnroll,
       Replace, Issue, Retire, Mark, Close
  <2>1. CASE TokenBegin(h) \/ TokenForRotation(h) \/ TokenSupersede(h) \/ TokenInsert(h)
    BY <1>1, <2>0, <2>1
    DEF TokenBegin, TokenForRotation, TokenSupersede, TokenInsert, server
  <2>2. CASE (\E t \in Tokens : EnrollConsume(h, t)) \/ EnrollRead(h) \/ ReplaceSee(h)
    BY <1>1, <2>0, <2>2 DEF EnrollConsume, EnrollRead, ReplaceSee, server
  <2>3. CASE ReplaceIssue(h) \/ Abort(h)
    BY <1>1, <2>0, <2>3 DEF ReplaceIssue, Abort, server
  <2>4. ASSUME NEW c \in Credentials, HeartbeatBegin(h, c) \/ RotateFromAgent(h, c)
        PROVE  ShutInv'
    BY <1>1, <2>0, <2>4 DEF HeartbeatBegin, RotateFromAgent, server
  <2>5. CASE HeartbeatRead(h)
    BY <1>0, <1>1, <2>0, <2>5 DEF HeartbeatRead, server, Gone, ShutInv, Then, Reopens, At
  <2>6. CASE HeartbeatWrite(h)
    BY <2>6 DEF HeartbeatWrite, ShutInv, Reopens
  <2>7. ASSUME NEW m \in Commands, CommandBegin(h, m) PROVE ShutInv'
    BY <1>0, <2>0, <2>7 DEF CommandBegin, ShutInv, Then, Reopens, At, server
  <2>8. CASE RetireSee(h) \/ RetireClose(h)
    BY <1>1, <2>0, <2>8 DEF RetireSee, RetireClose, Reopens, At, server
  <2>9. CASE CommandMark(h)
    <3>1. CASE work[h].command = "rotate"
      BY <2>9, <3>1 DEF CommandMark, ShutInv, Reopens, At
    <3>2. CASE work[h].command # "rotate"
      <4>1. status' = "REVOKED" /\ Then(h, Idle)
        BY <2>9, <3>2 DEF CommandMark
      <4>2. shut' => \A g \in Handlers \ {h} : ~Reopens(g)
        BY <2>9 DEF CommandMark, ShutInv
      <4>. QED
        BY <1>0, <2>0, <4>1, <4>2 DEF ShutInv, Reopens, At, Then
    <3>. QED
      BY <3>1, <3>2
  <2>. QED
    BY <1>2, <2>1, <2>2, <2>3, <2>4, <2>5, <2>6, <2>7, <2>8, <2>9 DEF Handle
<1>3. ASSUME NEW t \in Tokens, TokenExpires(t) PROVE ShutInv'
  BY <1>3 DEF TokenExpires, ShutInv, Reopens, At, server
<1>4. CASE UNCHANGED vars
  BY <1>4 DEF vars, server, ShutInv, Reopens, At
<1>. QED
  BY <1>2, <1>3, <1>4 DEF Next

----------------------------------------------------------------------------
(* The invariant of the module, of which the theorems below are parts.     *)
THEOREM Invariance == Spec => []IInv
<1>1. IInv /\ [Next]_vars => IInv'
  BY StepTypeOK, StepTokenInv, StepPresentedInv, StepShutInv DEF IInv
<1>. QED
  BY <1>1, InitIInv, PTL DEF Spec

(* Handlers remember well formed calls and rows keep their types.          *)
THEOREM TypeCorrect == Spec => []TypeOK
BY Invariance, PTL DEF IInv

(* However many requests race with a token, it issues one credential.      *)
THEOREM TokenIsSingleUse == Spec => []OneCredentialPerToken
BY Invariance, PTL DEF IInv

(* A revoke without a heartbeat past its read or a rotation under way      *)
(* lasts until the next rotation.                                          *)
THEOREM RevocationLasts == Spec => []RevocationHolds
<1>1. IInv => RevocationHolds
  BY DEF IInv, ShutInv, RevocationHolds
<1>. QED
  BY <1>1, Invariance, PTL

(* After such a revoke, or a deletion, no request passes authenticate() or *)
(* the check of enroll().                                                  *)
THEOREM NobodyIsLetIn == Spec => ShutOut
<1>1. ASSUME IInv, [Next]_vars
      PROVE  /\ deleted => deleted'
             /\ deleted \/ shut => \A h \in Handlers : LetIn(h)' => LetIn(h)
  <2>0. work \in [Handlers -> Calls] /\ deleted \in BOOLEAN
        /\ (shut => status = "REVOKED")
    BY <1>1 DEF IInv, TypeOK, ShutInv
  <2>1. deleted => deleted'
    BY <1>1, <2>0 DEF Next, Handle, vars, server, TokenBegin, TokenForRotation,
       TokenSupersede, TokenInsert, EnrollConsume, EnrollRead, ReplaceSee, ReplaceIssue,
       HeartbeatBegin, RotateFromAgent, HeartbeatRead, HeartbeatWrite, CommandBegin,
       RetireSee, RetireClose, CommandMark, Abort, TokenExpires
  <2>2. ASSUME deleted \/ shut, NEW h \in Handlers, Handle(h)
        PROVE  \A g \in Handlers : LetIn(g)' => LetIn(g)
    <3>0. /\ \A c : ~Authenticates(c)
          /\ \A t : ~AcceptsEnrollment(t)
      BY <2>0, <2>2 DEF Authenticates, AcceptsEnrollment
    <3>1. ASSUME NEW c, Then(h, c), \/ LetIn(h)
                                   \/ c.call \notin {"readForBeat", "beat", "replace", "issue"}
          PROVE  \A g \in Handlers : LetIn(g)' => LetIn(g)
      BY <2>0, <3>1 DEF Then, LetIn
    <3>2. Idle.call = "none" /\ ReadForToken.call = "readForToken"
          /\ (\A p : Supersede(p).call = "supersede")
          /\ (\A p, seen : InsertToken(p, seen).call = "insertToken")
          /\ (\A t : ReadForEnroll(t).call = "readForEnroll")
          /\ (\A m : Retire(m).call = "retire" /\ Mark(m).call = "mark")
          /\ (\A m, seen, open : Close(m, seen, open).call = "close")
      BY DEF Idle, ReadForToken, Supersede, InsertToken, ReadForEnroll, Retire, Mark, Close
    <3>3. CASE TokenBegin(h) \/ TokenForRotation(h) \/ TokenSupersede(h) \/ TokenInsert(h)
      BY <3>1, <3>2, <3>3 DEF TokenBegin, TokenForRotation, TokenSupersede, TokenInsert
    <3>4. CASE (\E t \in Tokens : EnrollConsume(h, t)) \/ EnrollRead(h)
      BY <3>0, <3>1, <3>2, <3>4 DEF EnrollConsume, EnrollRead
    <3>5. CASE ReplaceSee(h) \/ ReplaceIssue(h) \/ HeartbeatRead(h) \/ HeartbeatWrite(h)
      BY <3>1, <3>2, <3>5
      DEF ReplaceSee, ReplaceIssue, HeartbeatRead, HeartbeatWrite, LetIn, At
    <3>6. CASE \E m \in Commands : CommandBegin(h, m)
      BY <3>1, <3>2, <3>6 DEF CommandBegin
    <3>7. CASE RetireSee(h) \/ RetireClose(h) \/ CommandMark(h) \/ Abort(h)
      BY <3>1, <3>2, <3>7 DEF RetireSee, RetireClose, CommandMark, Abort
    <3>. QED
      BY <2>2, <3>0, <3>3, <3>4, <3>5, <3>6, <3>7 DEF Handle, HeartbeatBegin, RotateFromAgent
  <2>3. (\E t \in Tokens : TokenExpires(t)) \/ UNCHANGED vars
          => \A g \in Handlers : LetIn(g)' => LetIn(g)
    BY DEF TokenExpires, vars, LetIn
  <2>. QED
    BY <1>1, <2>1, <2>2, <2>3 DEF Next
<1>2. IInv /\ [Next]_vars =>
        [/\ deleted => deleted'
         /\ deleted \/ shut => \A h \in Handlers : LetIn(h)' => LetIn(h)]_vars
  BY <1>1
<1>. QED
  BY <1>2, Invariance, PTL DEF Spec, ShutOut

(* No handler, however stale what it saw, revives a retired credential.    *)
THEOREM RetiredStaysRetired == Spec => RetiredForever
<1>1. ASSUME TypeOK, [Next]_vars, NEW c \in Credentials,
             credential[c] \in {"ROTATED", "REVOKED"}
      PROVE  credential'[c] = credential[c]
  <2>1. \A seen, as : Retired(seen, as)[c] = credential[c]
    BY <1>1 DEF Retired, Active
  <2>2. ASSUME NEW h \in Handlers, ReplaceIssue(h) PROVE credential'[c] = credential[c]
    BY <1>1, <2>1, <2>2 DEF ReplaceIssue, Retired
  <2>3. ASSUME NEW h \in Handlers, RetireClose(h) PROVE credential'[c] = credential[c]
    BY <1>1, <2>1, <2>3 DEF RetireClose
  <2>. QED
    BY <1>1, <2>2, <2>3 DEF Next, Handle, vars, TokenBegin, TokenForRotation,
       TokenSupersede, TokenInsert, EnrollConsume, EnrollRead, ReplaceSee,
       HeartbeatBegin, RotateFromAgent, HeartbeatRead, HeartbeatWrite, CommandBegin,
       RetireSee, CommandMark, Abort, TokenExpires
<1>2. TypeOK /\ [Next]_vars =>
        [\A c \in Credentials :
           credential[c] \in {"ROTATED", "REVOKED"} => credential'[c] = credential[c]]_vars
  BY <1>1
<1>. QED
  BY <1>2, TypeCorrect, PTL DEF Spec, RetiredForever

----------------------------------------------------------------------------
(* The contract                                                            *)

(* Steps that issue nothing only close tokens.                             *)
LEMMA CloseStep ==
  ASSUME UNCHANGED <<credential, purpose>>, usable' \subseteq usable,
         \A g \in Handlers, t \in Tokens : Holds(g, t)' => Holds(g, t) \/ t \in usable
  PROVE  Access!Next
BY DEF Held, Access!Next, Access!Close

LEMMA IssueStep ==
  ASSUME IInv, NEW h \in Handlers, ReplaceIssue(h)
  PROVE  Access!Next
<1>. DEFINE with == work[h].with
            gone == work[h].seen \cap Active
<1>0. /\ work \in [Handlers -> Calls] /\ work[h] \in Calls
      /\ credential \in [Credentials -> {"ABSENT", "ACTIVE", "ROTATED", "REVOKED"}]
      /\ usable \subseteq Tokens
  BY DEF IInv, TypeOK
<1>1. /\ work[h].call = "issue" /\ with \in Tokens \cup Credentials
      /\ work' = [work EXCEPT ![h] = Idle] /\ UNCHANGED <<purpose, usable>>
  BY <1>0, CallFields DEF ReplaceIssue, At, Then, tokens
<1>2. PICK c \in Credentials :
        /\ credential[c] = "ABSENT"
        /\ credential' = [Retired(work[h].seen, "ROTATED") EXCEPT ![c] = "ACTIVE"]
  BY DEF ReplaceIssue
<1>3. gone \in SUBSET Access!Active /\ Access!Issue(c, gone)
  BY <1>1, <1>2 DEF Retired, Active, Access!Active, Access!Issue, Access!Retired
<1>4. Holds(h, with)
  BY <1>1 DEF Holds
<1>5. \A g \in Handlers, t \in Tokens : Holds(g, t)' <=> Holds(g, t) /\ g # h
  BY <1>0, <1>1 DEF Holds, Idle
<1>6. CASE with \in Tokens
  <2>1. \A g \in Handlers : Holds(g, with) => g = h
    BY <1>4, <1>6 DEF IInv, TokenInv
  <2>2. with \notin usable /\ with \in Held
    BY <1>4, <1>6 DEF IInv, TokenInv, Held
  <2>3. Held' = Held \ {with}
    BY <1>1, <1>4, <1>5, <2>1 DEF Held, Holds
  <2>4. (usable \cup Held)' = (usable \cup Held) \ {with}
    BY <1>1, <2>2, <2>3
  <2>5. gone # {} => purpose[with] = "ROTATE"
    BY <1>1, <1>6, AgentLifecycleAssumption DEF IInv, PresentedInv, At, Superseding
  <2>. QED
    BY <1>3, <1>6, <2>2, <2>4, <2>5 DEF Access!Next, Access!Enroll
<1>7. CASE with \in Credentials
  <2>1. Held' = Held
    BY <1>1, <1>5, <1>7, AgentLifecycleAssumption DEF Held, Holds
  <2>2. credential[with] # "ABSENT"
    BY <1>4, <1>7 DEF IInv, PresentedInv
  <2>. QED
    BY <1>1, <1>3, <1>7, <2>1, <2>2 DEF Access!Next, Access!Succeed
<1>. QED
  BY <1>1, <1>6, <1>7

LEMMA AccessStep == IInv /\ [Next]_vars => [Access!Next]_(Access!vars)
<1>. SUFFICES ASSUME IInv, [Next]_vars PROVE [Access!Next]_(Access!vars)
  OBVIOUS
<1>0. /\ work \in [Handlers -> Calls] /\ usable \subseteq Tokens
      /\ purpose \in [Tokens -> Purposes \cup {"NONE"}]
      /\ credential \in [Credentials -> {"ABSENT", "ACTIVE", "ROTATED", "REVOKED"}]
  BY DEF IInv, TypeOK
<1>1. ASSUME NEW h \in Handlers, Handle(h) PROVE Access!Next
  <2>0. work[h] \in Calls
    BY <1>0
  <2>1. ASSUME NEW x, Then(h, x), NEW t \in Tokens,
               x.call \in {"readForEnroll", "replace", "issue"} /\ x.with = t =>
                 Holds(h, t) \/ t \in usable
        PROVE  \A g \in Handlers : Holds(g, t)' => Holds(g, t) \/ t \in usable
    BY <1>0, <2>1 DEF Then, Holds
  <2>2. /\ Idle.call = "none" /\ ReadForToken.call = "readForToken"
        /\ ReadForBeat.call = "readForBeat" /\ Beat.call = "beat"
        /\ (\A p : Supersede(p).call = "supersede")
        /\ (\A p, seen : InsertToken(p, seen).call = "insertToken")
        /\ (\A m : Retire(m).call = "retire" /\ Mark(m).call = "mark")
        /\ (\A m, seen, open : Close(m, seen, open).call = "close")
        /\ (\A w : ReadForEnroll(w).with = w /\ Replace(w).with = w)
        /\ (\A w, seen : Issue(w, seen).with = w)
    BY DEF Idle, ReadForToken, ReadForBeat, Beat, Supersede, InsertToken, Retire, Mark, Close,
           ReadForEnroll, Replace, Issue
  <2>3. CASE TokenBegin(h) \/ TokenForRotation(h) \/ TokenSupersede(h)
    BY <2>1, <2>2, <2>3, CloseStep DEF TokenBegin, TokenForRotation, TokenSupersede, tokens
  <2>4. CASE HeartbeatRead(h) \/ HeartbeatWrite(h) \/ Abort(h)
    BY <2>1, <2>2, <2>4, CloseStep DEF HeartbeatRead, HeartbeatWrite, Abort, tokens
  <2>5. CASE RetireSee(h) \/ CommandMark(h) \/ \E m \in Commands : CommandBegin(h, m)
    BY <2>1, <2>2, <2>5, CloseStep DEF RetireSee, CommandMark, CommandBegin, tokens
  <2>6. ASSUME NEW t \in Tokens, EnrollConsume(h, t) PROVE Access!Next
    <3>1. /\ t \in usable /\ usable' \subseteq usable /\ Then(h, ReadForEnroll(t))
          /\ UNCHANGED <<credential, purpose>>
      BY <2>6 DEF EnrollConsume, Consumable
    <3>. QED
      BY <2>1, <2>2, <3>1, CloseStep
  <2>7. CASE EnrollRead(h) \/ ReplaceSee(h)
    <3>1. /\ UNCHANGED <<credential, purpose, usable>>
          /\ \A t : work[h].with = t /\ (At(h, "readForEnroll") \/ At(h, "replace")) => Holds(h, t)
      BY <2>7 DEF EnrollRead, ReplaceSee, tokens, At, Holds
    <3>. QED
      BY <2>1, <2>2, <2>7, <3>1, CloseStep DEF EnrollRead, ReplaceSee
  <2>8. ASSUME NEW c \in Credentials, HeartbeatBegin(h, c) \/ RotateFromAgent(h, c) PROVE Access!Next
    BY <2>1, <2>2, <2>8, CloseStep, AgentLifecycleAssumption DEF HeartbeatBegin, RotateFromAgent, tokens
  <2>9. CASE ReplaceIssue(h)
    BY <2>9, IssueStep
  <2>10. CASE TokenInsert(h)
    <3>1. PICK t \in Tokens \ Issued :
            /\ purpose' = [purpose EXCEPT ![t] = work[h].for]
            /\ usable' = (usable \ work[h].seen) \cup {t}
      BY <2>10 DEF TokenInsert
    <3>2. Then(h, Idle) /\ UNCHANGED credential /\ work[h].for \in Purposes
      BY <2>0, <2>10, CallFields DEF TokenInsert, At
    <3>3. Held' \subseteq usable \cup Held
      BY <2>1, <2>2, <3>2 DEF Held
    <3>4. (usable \cup Held)' \subseteq (usable \cup Held) \cup {t}
      BY <3>1, <3>3
    <3>5. purpose[t] = "NONE"
      BY DEF Issued
    <3>. QED
      BY <3>1, <3>2, <3>4, <3>5 DEF Access!Next, Access!IssueToken, Access!NewToken, Purposes
  <2>11. CASE RetireClose(h)
    <3>. DEFINE as == IF work[h].command = "rotate" THEN "ROTATED" ELSE "REVOKED"
    <3>1. /\ credential' = Retired(work[h].seen, as) /\ usable' \subseteq usable
          /\ Then(h, Mark(work[h].command)) /\ UNCHANGED purpose
      BY <2>11 DEF RetireClose
    <3>2. (usable \cup Held)' \subseteq usable \cup Held
      BY <2>1, <2>2, <3>1 DEF Held
    <3>3. /\ credential' = Access!Retired(work[h].seen \cap Active, as)
          /\ work[h].seen \cap Active \in SUBSET Access!Active
      BY <3>1 DEF Retired, Active, Access!Active, Access!Retired
    <3>. QED
      BY <3>1, <3>2, <3>3 DEF Access!Next, Access!Retire
  <2>. QED
    BY <1>1, <2>3, <2>4, <2>5, <2>6, <2>7, <2>8, <2>9, <2>10, <2>11 DEF Handle
<1>2. ASSUME NEW t \in Tokens, TokenExpires(t) PROVE Access!Next
  BY <1>2, CloseStep DEF TokenExpires, Holds
<1>3. CASE UNCHANGED vars
  BY <1>3 DEF vars, tokens, Access!vars, Held, Holds
<1>. QED
  BY <1>1, <1>2, <1>3 DEF Next

(* enroll(), rotateFromAgent(), revoke(), rotateCredential(), remove() and *)
(* createEnrollmentToken(), interleaved call by call, have an outcome that *)
(* AgentAccess allows with each enrollment at one moment.                  *)
THEOREM EnrollmentIsAtomic == Spec => ImplementsAgentAccess
<1>1. Init => Access!Init
  BY DEF Init, Access!Init, Held, Holds, Idle
<1>. QED
  BY <1>1, AccessStep, Invariance, PTL DEF Spec, ImplementsAgentAccess, Access!Spec

=============================================================================
