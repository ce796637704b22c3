---------------------------- MODULE InventoryProofs ----------------------------
(***************************************************************************)
(* Proofs about Inventory, for every number of requests, servers, keys and *)
(* spaces.                                                                 *)
(***************************************************************************)
EXTENDS Inventory, TLAPS

----------------------------------------------------------------------------
(* The inductive invariant.                                                *)

(* An assignment of a removed key began before the removal ended.          *)
AssignedBefore ==
  \A h \in Handlers, k \in Keys : Assigning(work[h], k) /\ k \in deleted => k \in contended

Untouched(k) == (\A s \in Servers : <<k, s>> \notin usage) /\ (\A s \in Servers : server[s].key # k)

(* While an uncontended removal is under way nothing uses the key.         *)
RemovalClean ==
  \A h \in Handlers, k \in Keys : work[h] = Removing(k) /\ k \notin contended => Untouched(k)

RemovedClean == \A k \in deleted \ contended : Untouched(k)

Noted == Contended(work) \subseteq contended

(* What a patch remembers of its row, also once the version moved on.      *)
PatchBehind ==
  \A h \in Handlers : work[h].call \in PatchCalls =>
    LET now == server[work[h].on]
        seen == work[h].row
    IN /\ now.state # "absent"
       /\ seen.version <= now.version
       /\ now.version = seen.version =>
            /\ now.tags = seen.tags
            /\ now.space = seen.space \/ (seen.space \in Spaces /\ space[seen.space] = "gone")

(* A request that will activate its key has read it fit.                   *)
FitCalls == {"install.find", "install.assign", "rotate.find", "rotate.server", "rotate.old",
  "rotate.new", "create.row", "patch.space", "patch.write", "reread", "upsert", "activate"}

FitOK(w) == w.call \in FitCalls => w.fit

IInv ==
  /\ TypeOK /\ UsageCovers
  /\ AssignedBefore /\ RemovalClean /\ RemovedClean /\ Noted
  /\ PatchBehind
  /\ \A h \in Handlers : FitOK(work[h])

----------------------------------------------------------------------------
(* What every step does, whichever call it is.                             *)

(* It changes one request, and notes the contention.                       *)
OneRequest(h) ==
  /\ work' = [work EXCEPT ![h] = work'[h]]
  /\ contended' = contended \cup Contended(work')

(* A usage goes only with the key of its server, a key comes with its      *)
(* usage or with the duty to write it, and that duty ends with the usage.  *)
KeepsUsage(h) ==
  /\ \A s \in Servers : <<server'[s].key, s>> \in usage /\ server'[s].key = server[s].key =>
       <<server'[s].key, s>> \in usage'
  /\ \A s \in Servers : Given(server'[s].key) /\ server'[s].key # server[s].key =>
       <<server'[s].key, s>> \in usage' \/ Unwritten(work'[h], server'[s].key, s)
  /\ \A k \in Keys, s \in Servers : Unwritten(work[h], k, s) =>
       Unwritten(work'[h], k, s) \/ <<k, s>> \in usage'

(* Only a request that is assigning a key touches it, it starts with a key *)
(* that is kept, and only a removal removes, having seen the key unused.   *)
KeepsClean(h) ==
  /\ \A k \in Keys : Untouched(k) => Untouched(k)' \/ Assigning(work[h], k)
  /\ \A k \in Keys : Assigning(work'[h], k) => Assigning(work[h], k) \/ (Kept(k) /\ deleted' = deleted)
  /\ \A k \in deleted' : k \in deleted \/ (work[h] = Removing(k) /\ UNCHANGED <<server, usage>>)
  /\ deleted \subseteq deleted'
  /\ \A k \in Keys : work'[h] = Removing(k) =>
       work[h] = Ready /\ UNCHANGED <<server, usage>> /\ (\A s \in Servers : <<k, s>> \notin usage)

(* A row keeps its version only if its tags and, unless that space is      *)
(* deleted, its space stay; a patch starts with the row as it is.          *)
KeepsRows(h) ==
  /\ \A s \in Servers :
       /\ server[s].state # "absent" => server'[s].state # "absent"
       /\ \/ server'[s].version = server[s].version + 1
          \/ server[s].state = "absent"
          \/ /\ server'[s].version = server[s].version
             /\ server'[s].tags = server[s].tags
             /\ \/ server'[s].space = server[s].space
                \/ server[s].space \in Spaces /\ space'[server[s].space] = "gone"
  /\ \A p \in Spaces : space[p] = "gone" => space'[p] = "gone"
  /\ work'[h].call \in PatchCalls =>
       /\ server' = server
       /\ \/ work[h].call \in PatchCalls /\ work'[h].on = work[h].on /\ work'[h].row = work[h].row
          \/ work'[h].row = server[work'[h].on] /\ server[work'[h].on].state # "absent"

(* Only these calls make a withdrawn key usable, and all but two of them   *)
(* only for a request that has read the key fit.                           *)
Revived(k) == status[k] \in Withdrawn /\ status'[k] \notin Withdrawn \cup {"DELETING"}

KeepsWithdrawn(h) ==
  /\ FitOK(work[h]) => FitOK(work'[h])
  /\ \A k \in Keys : Revived(k) =>
       /\ work'[h] # work[h]
       /\ work[h].call \in {"status", "rotate.old", "activate", "install.assign", "rotate.new"}

Sound(h) == OneRequest(h) /\ KeepsUsage(h) /\ KeepsClean(h) /\ KeepsRows(h) /\ KeepsWithdrawn(h)

----------------------------------------------------------------------------
(* A sound step keeps each part of the invariant.                          *)

LEMMA UsageKeptLemma ==
  ASSUME NEW h \in Handlers, TypeOK, TypeOK', UsageCovers, OneRequest(h), KeepsUsage(h)
  PROVE  UsageCovers'
PROOF
<1> SUFFICES ASSUME NEW s \in Servers, Given(server'[s].key), <<server'[s].key, s>> \notin usage'
             PROVE  \E g \in Handlers : Unwritten(work'[g], server'[s].key, s)
    BY DEF UsageCovers, Unwritten, Given
<1> DEFINE k == server'[s].key
<1>1. CASE server[s].key # k
    BY <1>1 DEF KeepsUsage
<1>2. CASE server[s].key = k
    <2>1. PICK g \in Handlers : Unwritten(work[g], k, s)
        BY <1>2 DEF UsageCovers, KeepsUsage, Given
    <2>2. CASE g = h
        BY <2>1, <2>2 DEF KeepsUsage, Given
    <2>3. CASE g # h
        <3>1. work'[g] = work[g]
            BY <2>3 DEF OneRequest, TypeOK
        <3> QED BY <2>1, <3>1
    <2> QED BY <2>2, <2>3
<1> QED BY <1>1, <1>2

LEMMA CleanLemma ==
  ASSUME NEW h \in Handlers, IInv, TypeOK', UsageCovers, OneRequest(h), KeepsClean(h)
  PROVE  AssignedBefore' /\ RemovalClean' /\ RemovedClean' /\ Noted'
PROOF
<1>1. \A g \in Handlers : g # h => work'[g] = work[g]
    BY DEF OneRequest, IInv, TypeOK
<1>2. Noted'
    BY DEF Noted, OneRequest
<1>3. \A k \in Keys, g \in Handlers : work[g] = Removing(k) /\ Assigning(work[h], k) => k \in contended
    BY DEF IInv, Noted, Contended
<1>4. contended \subseteq contended'
    BY DEF OneRequest
<1>5. AssignedBefore'
    <2> SUFFICES ASSUME NEW g \in Handlers, NEW k \in Keys, Assigning(work'[g], k), k \in deleted'
                 PROVE  k \in contended'
        BY DEF AssignedBefore, Assigning
    <2>1. CASE k \in deleted
        <3>1. Assigning(work[g], k)
            BY <1>1, <2>1 DEF KeepsClean, Kept
        <3> QED BY <3>1, <2>1, <1>4 DEF IInv, AssignedBefore
    <2>2. CASE k \notin deleted
        <3>1. work[h] = Removing(k)
            BY <2>2 DEF KeepsClean
        <3>2. Assigning(work[g], k)
            BY <1>1, <2>2 DEF KeepsClean, Kept
        <3> QED BY <3>1, <3>2, <1>4 DEF IInv, Noted, Contended
    <2> QED BY <2>1, <2>2
<1>6. RemovalClean'
    <2> SUFFICES ASSUME NEW g \in Handlers, NEW k \in Keys, work'[g] = Removing(k), k \notin contended'
                 PROVE  Untouched(k)'
        BY DEF RemovalClean, Removing
    <2>1. CASE g # h
        BY <2>1, <1>1, <1>3, <1>4 DEF IInv, RemovalClean, KeepsClean
    <2>2. CASE g = h
        <3>1. ASSUME NEW s \in Servers, server[s].key = k PROVE FALSE
            <4>1. PICK f \in Handlers : Unwritten(work[f], k, s)
                BY <2>2, <3>1 DEF IInv, UsageCovers, KeepsClean, Given
            <4>2. f # h
                BY <2>2, <4>1 DEF KeepsClean, Ready, Unwritten
            <4>3. Assigning(work'[f], k)
                BY <4>1, <4>2, <1>1 DEF Assigning, Unwritten
            <4>4. k \in Contended(work')
                BY <4>3 DEF Contended
            <4> QED BY <4>4 DEF OneRequest
        <3>2. UNCHANGED <<server, usage>> /\ (\A s \in Servers : <<k, s>> \notin usage)
            BY <2>2 DEF KeepsClean
        <3> QED BY <3>1, <3>2 DEF Untouched
    <2> QED BY <2>1, <2>2
<1>7. RemovedClean'
    <2> SUFFICES ASSUME NEW k \in deleted', k \notin contended' PROVE Untouched(k)'
        BY DEF RemovedClean
    <2>0. k \in Keys
        BY DEF TypeOK
    <2>1. CASE k \in deleted
        BY <2>0, <2>1, <1>4 DEF IInv, RemovedClean, KeepsClean, AssignedBefore
    <2>2. CASE k \notin deleted
        <3>1. work[h] = Removing(k) /\ UNCHANGED <<server, usage>>
            BY <2>2 DEF KeepsClean
        <3>2. Untouched(k)
            BY <2>0, <3>1, <1>4 DEF IInv, RemovalClean
        <3> QED BY <3>1, <3>2 DEF Untouched
    <2> QED BY <2>1, <2>2
<1> QED BY <1>2, <1>5, <1>6, <1>7

LEMMA RowsLemma ==
  ASSUME NEW h \in Handlers, TypeOK, TypeOK', PatchBehind, OneRequest(h), KeepsRows(h)
  PROVE  PatchBehind'
PROOF
<1> SUFFICES ASSUME NEW g \in Handlers, work'[g].call \in PatchCalls
             PROVE  LET now == server'[work'[g].on]
                        seen == work'[g].row
                    IN /\ now.state # "absent"
                       /\ seen.version <= now.version
                       /\ now.version = seen.version =>
                            /\ now.tags = seen.tags
                            /\ now.space = seen.space
                               \/ (seen.space \in Spaces /\ space'[seen.space] = "gone")
    BY DEF PatchBehind, PatchCalls
<1>0. work'[g].on \in Servers /\ work'[g].row \in Row
    BY DEF TypeOK, RequestOK
<1>1. CASE g = h /\ work'[h].row = server[work'[h].on] /\ server[work'[h].on].state # "absent"
    BY <1>0, <1>1 DEF KeepsRows, TypeOK, Row
<1>2. CASE g # h \/ (work[h].call \in PatchCalls /\ work'[h].on = work[h].on /\ work'[h].row = work[h].row)
    <2> DEFINE s == work'[g].on
               seen == work'[g].row
    <2>1. work[g].call \in PatchCalls /\ work[g].on = s /\ work[g].row = seen
        BY <1>2 DEF OneRequest, TypeOK
    <2>2. /\ server[s].state # "absent"
          /\ seen.version <= server[s].version
          /\ server[s].version = seen.version =>
               /\ server[s].tags = seen.tags
               /\ server[s].space = seen.space \/ (seen.space \in Spaces /\ space[seen.space] = "gone")
        BY <2>1 DEF PatchBehind
    <2>3. server[s].version \in Nat /\ server'[s].version \in Nat /\ seen.version \in Nat
        BY <1>0 DEF TypeOK, Row
    <2>4. server'[s].state # "absent"
        BY <1>0, <2>2 DEF KeepsRows
    <2>5. CASE server'[s].version = server[s].version + 1
        BY <2>2, <2>3, <2>4, <2>5
    <2>6. CASE /\ server'[s].version = server[s].version
               /\ server'[s].tags = server[s].tags
               /\ \/ server'[s].space = server[s].space
                  \/ server[s].space \in Spaces /\ space'[server[s].space] = "gone"
        BY <2>2, <2>3, <2>4, <2>6 DEF KeepsRows
    <2> QED BY <1>0, <2>2, <2>5, <2>6 DEF KeepsRows
<1> QED BY <1>1, <1>2 DEF KeepsRows

----------------------------------------------------------------------------
(* Every step is sound.                                                    *)

Typed ==
  /\ server' \in [Servers -> Row]
  /\ status' \in [Keys -> Statuses]
  /\ deleted' \in SUBSET Keys
  /\ usage' \in SUBSET (Keys \X Servers)
  /\ space' \in [Spaces -> {"new", "there", "gone"}]

LEMMA ThenLemma ==
  ASSUME TypeOK, NEW h \in Handlers, NEW next, Then(h, next)
  PROVE  work'[h] = next /\ OneRequest(h) /\ (RequestOK(next) /\ Typed => TypeOK')
PROOF
<1>1. work'[h] = next /\ OneRequest(h) /\ work' = [g \in Handlers |-> work'[g]]
    BY DEF TypeOK, Then, OneRequest
<1>2. contended' \in SUBSET Keys
    BY DEF Then, TypeOK, Contended
<1>3. \A g \in Handlers : g # h => work'[g] = work[g]
    BY DEF Then, TypeOK
<1>4. ASSUME RequestOK(next) PROVE \A g \in Handlers : RequestOK(work'[g])
    BY <1>1, <1>3, <1>4 DEF TypeOK
<1> QED BY <1>1, <1>2, <1>4 DEF TypeOK, Typed

(* A step that writes no server, no usage and no space is sound if its     *)
(* request goes on soundly.                                                *)
Asks(h) ==
  /\ RequestOK(work'[h])
  /\ \A k \in Keys, s \in Servers : Unwritten(work[h], k, s) => Unwritten(work'[h], k, s)
  /\ \A k \in Keys : Assigning(work'[h], k) => Assigning(work[h], k) \/ Kept(k)
  /\ \A k \in Keys : work'[h] = Removing(k) =>
       work[h] = Ready /\ (\A s \in Servers : <<k, s>> \notin usage)
  /\ work'[h].call \in PatchCalls =>
       \/ work[h].call \in PatchCalls /\ work'[h].on = work[h].on /\ work'[h].row = work[h].row
       \/ work'[h].row = server[work'[h].on] /\ server[work'[h].on].state # "absent"
  /\ KeepsWithdrawn(h)

LEMMA AsksLemma ==
  ASSUME TypeOK, NEW h \in Handlers, \E next : Then(h, next), Asks(h),
         status' \in [Keys -> Statuses], UNCHANGED <<server, deleted, usage, space>>
  PROVE  TypeOK' /\ Sound(h)
PROOF
<1>1. OneRequest(h) /\ (Typed => TypeOK')
    BY ThenLemma DEF Asks
<1>2. Typed
    BY DEF Typed, TypeOK
<1>3. KeepsUsage(h)
    BY DEF KeepsUsage, Asks
<1>4. KeepsClean(h)
    BY DEF KeepsClean, Asks, Untouched
<1>5. KeepsRows(h)
    BY DEF KeepsRows, Asks
<1> QED BY <1>1, <1>2, <1>3, <1>4, <1>5 DEF Sound, Asks

LEMMA KeyReadsSound ==
  ASSUME TypeOK, NEW h \in Handlers,
         \/ \E k \in Keys : RemoveKeyRead(h, k)
         \/ \E k \in Keys, to \in SettableStatuses : SetStatusRead(h, k, to)
         \/ \E k \in Keys, S \in SUBSET Servers, p \in Spaces \cup {None} : InstallCheck(h, k, S, p)
         \/ \E k, to \in Keys, S \in SUBSET Servers : RotateRead(h, k, to, S)
         \/ \E s \in Servers : RotateServerFails(h, s)
         \/ InstallFind(h)
         \/ RotateCheck(h)
         \/ RotateFind(h)
         \/ RotateCount(h)
  PROVE  Asks(h)
PROOF
<1> USE InventoryAssumption DEF rows, Asks, KeepsWithdrawn, Revived, FitOK, FitCalls, Fit, Withdrawn, RequestOK, PatchCalls, KeyCalls, Unwritten, Assigning, Kept, May, Ready, Then
<1>1. RequestOK(work[h]) /\ server \in [Servers -> Row] /\ work = [g \in Handlers |-> work[g]]
    BY DEF TypeOK
<1>2. CASE \E k \in Keys : RemoveKeyRead(h, k)
    BY <1>1, <1>2 DEF RemoveKeyRead, Removing, Unused, UsersOf
<1>3. CASE \E k \in Keys, to \in SettableStatuses : SetStatusRead(h, k, to)
    BY <1>1, <1>3 DEF SetStatusRead, Removing
<1>4. CASE \E k \in Keys, S \in SUBSET Servers, p \in Spaces \cup {None} : InstallCheck(h, k, S, p)
    <2>1. PICK k \in Keys, S \in SUBSET Servers, p \in Spaces \cup {None} : InstallCheck(h, k, S, p)
        BY <1>4
    <2>2. Fit(k) /\ Kept(k)
        BY <2>1 DEF InstallCheck
    <2>3. work'[h] = [call |-> "install.find", key |-> k, ids |-> S, of |-> p, fit |-> TRUE]
        BY <1>1, <2>1, <2>2 DEF InstallCheck
    <2>4. status' = status
        BY <2>1 DEF InstallCheck
    <2>5. KeepsWithdrawn(h)
        BY <2>3, <2>4
    <2> HIDE DEF KeepsWithdrawn
    <2> QED BY <2>1, <2>2, <2>3, <2>5 DEF InstallCheck, Removing
<1>5. CASE \E k, to \in Keys, S \in SUBSET Servers : RotateRead(h, k, to, S)
    <2>1. PICK k \in Keys, to \in Keys, S \in SUBSET Servers : RotateRead(h, k, to, S)
        BY <1>5
    <2>2. UsersOf(k) \in SUBSET Servers
        BY DEF UsersOf
    <2> QED BY <1>1, <2>1, <2>2 DEF RotateRead, Removing
<1>6. CASE \E s \in Servers : RotateServerFails(h, s)
    BY <1>1, <1>6 DEF RotateServerFails, Rotating, Removing
<1>7. CASE InstallFind(h)
    BY <1>1, <1>7 DEF InstallFind, Installing, Done, Removing
<1>8. CASE RotateCheck(h)
    BY <1>1, <1>8 DEF RotateCheck, Rotatable, Done, Removing
<1>9. CASE RotateFind(h)
    BY <1>1, <1>9 DEF RotateFind, Rotating, Done, Removing
<1>10. CASE RotateCount(h)
    BY <1>1, <1>10 DEF RotateCount, Done, Removing
<1> QED BY <1>2, <1>3, <1>4, <1>5, <1>6, <1>7, <1>8, <1>9, <1>10

LEMMA SpaceReadsSound ==
  ASSUME TypeOK, NEW h \in Handlers,
         \/ \E p \in Spaces \cup {None}, S \in SUBSET Servers : AttachCheck(h, p, S)
         \/ \E p \in Spaces \cup {None}, s \in Servers : AssignCheck(h, p, s)
         \/ \E p \in Spaces, into \in Spaces \cup {None} : RemoveSpaceCheck(h, p, into)
         \/ \E s \in Servers, T \in SUBSET Tags : TagsRead(h, s, T, {}) \/ TagsRead(h, s, {}, T)
         \/ AssignRead(h)
         \/ RemoveSpaceMove(h)
  PROVE  Asks(h)
PROOF
<1> USE InventoryAssumption DEF rows, Asks, KeepsWithdrawn, Revived, FitOK, FitCalls, Fit, Withdrawn, RequestOK, PatchCalls, KeyCalls, Unwritten, Assigning, Kept, May, Ready, Then
<1>1. RequestOK(work[h]) /\ server \in [Servers -> Row] /\ work = [g \in Handlers |-> work[g]]
    BY DEF TypeOK
<1>2. CASE \E p \in Spaces \cup {None}, S \in SUBSET Servers : AttachCheck(h, p, S)
    BY <1>1, <1>2 DEF AttachCheck, Removing
<1>3. CASE \E p \in Spaces \cup {None}, s \in Servers : AssignCheck(h, p, s)
    BY <1>1, <1>3 DEF AssignCheck, Removing
<1>4. CASE \E p \in Spaces, into \in Spaces \cup {None} : RemoveSpaceCheck(h, p, into)
    BY <1>1, <1>4 DEF RemoveSpaceCheck, Removing
<1>5. CASE \E s \in Servers, T \in SUBSET Tags : TagsRead(h, s, T, {}) \/ TagsRead(h, s, {}, T)
    BY <1>1, <1>5 DEF TagsRead, Removing, Row
<1>6. CASE AssignRead(h)
    BY <1>1, <1>6 DEF AssignRead, Done, Removing
<1>7. CASE RemoveSpaceMove(h)
    BY <1>1, <1>7 DEF RemoveSpaceMove, Done, Removing
<1> QED BY <1>2, <1>3, <1>4, <1>5, <1>6, <1>7

LEMMA ServerReadsSound ==
  ASSUME TypeOK, NEW h \in Handlers,
         \/ \E body \in Bodies : CreateServerSpace(h, body)
         \/ \E s \in Servers, body \in Bodies : PatchRead(h, s, body)
         \/ CreateServerKey(h)
         \/ PatchSpace(h)
         \/ PatchKey(h)
         \/ PatchReread(h)
         \/ Abort(h)
  PROVE  Asks(h)
PROOF
<1> USE InventoryAssumption DEF rows, Asks, KeepsWithdrawn, Revived, FitOK, FitCalls, Fit, Withdrawn, RequestOK, PatchCalls, KeyCalls, Unwritten, Assigning, Kept, May, Ready, Then
<1>1. RequestOK(work[h]) /\ server \in [Servers -> Row] /\ work = [g \in Handlers |-> work[g]]
    BY DEF TypeOK
<1>2. CASE \E body \in Bodies : CreateServerSpace(h, body)
    BY <1>1, <1>2 DEF CreateServerSpace, Removing
<1>3. CASE \E s \in Servers, body \in Bodies : PatchRead(h, s, body)
    BY <1>1, <1>3 DEF PatchRead, Patching, Live, Removing
<1>4. CASE CreateServerKey(h)
    BY <1>1, <1>4 DEF CreateServerKey, UsableOnServer, Given, Done, Removing
<1>5. CASE PatchSpace(h)
    BY <1>1, <1>5 DEF PatchSpace, Patching, Done, Removing
<1>6. CASE PatchKey(h)
    BY <1>1, <1>6 DEF PatchKey, Patching, UsableOnServer, Given, Done, Removing
<1>7. CASE PatchReread(h)
    BY <1>1, <1>7 DEF PatchReread, Upsert, Owed, Removing
<1>8. CASE Abort(h)
    BY <1>1, <1>8 DEF Abort, Owed, Done, Removing
<1> QED BY <1>2, <1>3, <1>4, <1>5, <1>6, <1>7, <1>8

LEMMA StatusSound ==
  ASSUME TypeOK, NEW h \in Handlers,
         \/ \E k \in Keys : PersistKey(h, k)
         \/ SetStatusWrite(h)
         \/ InstallFinish(h)
         \/ RotateOldStatus(h)
         \/ RotateNewStatus(h)
         \/ ActivateKey(h)
  PROVE  Asks(h) /\ status' \in [Keys -> Statuses]
PROOF
<1> USE DEF Asks, KeepsWithdrawn, Revived, FitOK, FitCalls, Withdrawn, RequestOK, PatchCalls, KeyCalls, Unwritten, Assigning, May, Ready, Then, Removing, Statuses
<1>1. RequestOK(work[h]) /\ work = [g \in Handlers |-> work[g]] /\ status \in [Keys -> Statuses]
    BY DEF TypeOK
<1>2. CASE \E k \in Keys : PersistKey(h, k)
    BY <1>1, <1>2 DEF PersistKey, Done
<1>3. CASE SetStatusWrite(h)
    BY <1>1, <1>3 DEF SetStatusWrite, SettableStatuses, Done
<1>4. CASE InstallFinish(h)
    BY <1>1, <1>4 DEF InstallFinish, Done
<1>5. CASE RotateOldStatus(h)
    BY <1>1, <1>5 DEF RotateOldStatus, Done
<1>6. CASE RotateNewStatus(h)
    BY <1>1, <1>6 DEF RotateNewStatus, Done
<1>7. CASE ActivateKey(h)
    BY <1>1, <1>7 DEF ActivateKey, Done
<1> QED BY <1>2, <1>3, <1>4, <1>5, <1>6, <1>7

LEMMA RemoveKeyWriteSound ==
  ASSUME TypeOK, NEW h \in Handlers, RemoveKeyWrite(h)
  PROVE  TypeOK' /\ Sound(h)
PROOF
<1> USE DEF RemoveKeyWrite, Done
<1>1. PICK next : Then(h, next)
    OBVIOUS
<1>2. work'[h] = next /\ OneRequest(h) /\ (RequestOK(next) /\ Typed => TypeOK')
    BY <1>1, ThenLemma
<1>3. RequestOK(work[h]) /\ work = [g \in Handlers |-> work[g]]
    BY DEF TypeOK
<1>4. RequestOK(work'[h])
    BY <1>3 DEF Then, RequestOK, PatchCalls, KeyCalls
<1>5. Typed
    BY <1>3 DEF Typed, TypeOK, RequestOK, KeyCalls, Row, Statuses
<1>6. KeepsUsage(h)
    BY <1>3 DEF KeepsUsage, TypeOK, Unwritten, RequestOK, KeyCalls, Then, Row
<1>7. KeepsClean(h)
    BY <1>3 DEF KeepsClean, TypeOK, Untouched, Assigning, RequestOK, KeyCalls, Then, Row, Removing
<1>8. KeepsRows(h)
    BY <1>3 DEF KeepsRows, TypeOK, Then, PatchCalls, Row
<1>9. KeepsWithdrawn(h)
    BY <1>3 DEF KeepsWithdrawn, Revived, FitOK, FitCalls, Then, Withdrawn, TypeOK
<1> QED BY <1>2, <1>4, <1>5, <1>6, <1>7, <1>8, <1>9 DEF Sound

LEMMA InstallAssignSound ==
  ASSUME TypeOK, NEW h \in Handlers, NEW s \in Servers, InstallAssign(h, s)
  PROVE  TypeOK' /\ Sound(h)
PROOF
<1> USE DEF InstallAssign, Rekey, UsageAdded, Installing
<1>1. PICK next : Then(h, next)
    OBVIOUS
<1>2. work'[h] = next /\ OneRequest(h) /\ (RequestOK(next) /\ Typed => TypeOK')
    BY <1>1, ThenLemma
<1>3. RequestOK(work[h]) /\ work = [g \in Handlers |-> work[g]]
    BY DEF TypeOK
<1>4. RequestOK(work'[h])
    BY <1>3 DEF Then, RequestOK, PatchCalls, KeyCalls
<1>5. Typed
    BY <1>3 DEF Typed, TypeOK, RequestOK, KeyCalls, Row
<1>6. KeepsUsage(h)
    BY <1>3 DEF KeepsUsage, TypeOK, Unwritten, RequestOK, KeyCalls, Then, Row
<1>7. KeepsClean(h)
    BY <1>3 DEF KeepsClean, TypeOK, Untouched, Assigning, RequestOK, KeyCalls, Then, Row, Removing
<1>8. KeepsRows(h)
    BY <1>3 DEF KeepsRows, TypeOK, Then, PatchCalls, Row
<1>9. KeepsWithdrawn(h)
    BY <1>3 DEF KeepsWithdrawn, Revived, FitOK, FitCalls, Then, Withdrawn, TypeOK
<1> QED BY <1>2, <1>4, <1>5, <1>6, <1>7, <1>8, <1>9 DEF Sound

LEMMA RotateServerSound ==
  ASSUME TypeOK, NEW h \in Handlers, NEW s \in Servers, RotateServer(h, s)
  PROVE  TypeOK' /\ Sound(h)
PROOF
<1> USE DEF RotateServer, Rekey, UsageMoved, Rotating
<1>1. PICK next : Then(h, next)
    OBVIOUS
<1>2. work'[h] = next /\ OneRequest(h) /\ (RequestOK(next) /\ Typed => TypeOK')
    BY <1>1, ThenLemma
<1>3. RequestOK(work[h]) /\ work = [g \in Handlers |-> work[g]]
    BY DEF TypeOK
<1>4. RequestOK(work'[h])
    BY <1>3 DEF Then, RequestOK, PatchCalls, KeyCalls
<1>5. Typed
    BY <1>3 DEF Typed, TypeOK, RequestOK, KeyCalls, Row
<1>6. KeepsUsage(h)
    BY <1>3 DEF KeepsUsage, TypeOK, Unwritten, RequestOK, KeyCalls, Then, Row
<1>7. KeepsClean(h)
    BY <1>3 DEF KeepsClean, TypeOK, Untouched, Assigning, RequestOK, KeyCalls, Then, Row, Removing
<1>8. KeepsRows(h)
    BY <1>3 DEF KeepsRows, TypeOK, Then, PatchCalls, Row
<1>9. KeepsWithdrawn(h)
    BY <1>3 DEF KeepsWithdrawn, Revived, FitOK, FitCalls, Then, Withdrawn, TypeOK
<1> QED BY <1>2, <1>4, <1>5, <1>6, <1>7, <1>8, <1>9 DEF Sound

LEMMA TagsWriteSound ==
  ASSUME TypeOK, NEW h \in Handlers, TagsWrite(h)
  PROVE  TypeOK' /\ Sound(h)
PROOF
<1> USE DEF TagsWrite, Retagged, Done
<1>1. PICK next : Then(h, next)
    OBVIOUS
<1>2. work'[h] = next /\ OneRequest(h) /\ (RequestOK(next) /\ Typed => TypeOK')
    BY <1>1, ThenLemma
<1>3. RequestOK(work[h]) /\ work = [g \in Handlers |-> work[g]]
    BY DEF TypeOK
<1>4. RequestOK(work'[h])
    BY <1>3 DEF Then, RequestOK, PatchCalls, KeyCalls
<1>5. Typed
    BY <1>3 DEF Typed, TypeOK, RequestOK, KeyCalls, Row
<1>6. KeepsUsage(h)
    BY <1>3 DEF KeepsUsage, TypeOK, Unwritten, RequestOK, KeyCalls, Then, Row
<1>7. KeepsClean(h)
    BY <1>3 DEF KeepsClean, TypeOK, Untouched, Assigning, RequestOK, KeyCalls, Then, Row, Removing
<1>8. KeepsRows(h)
    BY <1>3 DEF KeepsRows, TypeOK, Then, PatchCalls, Row
<1>9. KeepsWithdrawn(h)
    BY <1>3 DEF KeepsWithdrawn, Revived, FitOK, FitCalls, Then, Withdrawn, TypeOK
<1> QED BY <1>2, <1>4, <1>5, <1>6, <1>7, <1>8, <1>9 DEF Sound

LEMMA RemoveServerSound ==
  ASSUME TypeOK, NEW h \in Handlers, NEW s \in Servers, RemoveServer(h, s)
  PROVE  TypeOK' /\ Sound(h)
PROOF
<1> USE DEF RemoveServer, May, Live, Ready, Done
<1>1. PICK next : Then(h, next)
    OBVIOUS
<1>2. work'[h] = next /\ OneRequest(h) /\ (RequestOK(next) /\ Typed => TypeOK')
    BY <1>1, ThenLemma
<1>3. RequestOK(work[h]) /\ work = [g \in Handlers |-> work[g]]
    BY DEF TypeOK
<1>4. RequestOK(work'[h])
    BY <1>3 DEF Then, RequestOK, PatchCalls, KeyCalls
<1>5. Typed
    BY <1>3 DEF Typed, TypeOK, RequestOK, KeyCalls, Row
<1>6. KeepsUsage(h)
    BY <1>3 DEF KeepsUsage, TypeOK, Unwritten, RequestOK, KeyCalls, Then, Row
<1>7. KeepsClean(h)
    BY <1>3 DEF KeepsClean, TypeOK, Untouched, Assigning, RequestOK, KeyCalls, Then, Row, Removing
<1>8. KeepsRows(h)
    BY <1>3 DEF KeepsRows, TypeOK, Then, PatchCalls, Row
<1>9. KeepsWithdrawn(h)
    BY <1>3 DEF KeepsWithdrawn, Revived, FitOK, FitCalls, Then, Withdrawn, TypeOK
<1> QED BY <1>2, <1>4, <1>5, <1>6, <1>7, <1>8, <1>9 DEF Sound

LEMMA UpsertUsageSound ==
  ASSUME TypeOK, NEW h \in Handlers, UpsertUsage(h)
  PROVE  TypeOK' /\ Sound(h)
PROOF
<1> USE DEF UpsertUsage, UsageAdded
<1>1. PICK next : Then(h, next)
    OBVIOUS
<1>2. work'[h] = next /\ OneRequest(h) /\ (RequestOK(next) /\ Typed => TypeOK')
    BY <1>1, ThenLemma
<1>3. RequestOK(work[h]) /\ work = [g \in Handlers |-> work[g]]
    BY DEF TypeOK
<1>4. RequestOK(work'[h])
    BY <1>3 DEF Then, RequestOK, PatchCalls, KeyCalls
<1>5. Typed
    BY <1>3 DEF Typed, TypeOK, RequestOK, KeyCalls, Row
<1>6. KeepsUsage(h)
    BY <1>3 DEF KeepsUsage, TypeOK, Unwritten, RequestOK, KeyCalls, Then, Row
<1>7. KeepsClean(h)
    BY <1>3 DEF KeepsClean, TypeOK, Untouched, Assigning, RequestOK, KeyCalls, Then, Row, Removing
<1>8. KeepsRows(h)
    BY <1>3 DEF KeepsRows, TypeOK, Then, PatchCalls, Row
<1>9. KeepsWithdrawn(h)
    BY <1>3 DEF KeepsWithdrawn, Revived, FitOK, FitCalls, Then, Withdrawn, TypeOK
<1> QED BY <1>2, <1>4, <1>5, <1>6, <1>7, <1>8, <1>9 DEF Sound

LEMMA CreateServerRowSound ==
  ASSUME TypeOK, NEW h \in Handlers, NEW s \in Servers, CreateServerRow(h, s)
  PROVE  TypeOK' /\ Sound(h)
PROOF
<1> USE DEF CreateServerRow, OrNone, Given, Upsert, Done
<1>1. PICK next : Then(h, next)
    OBVIOUS
<1>2. work'[h] = next /\ OneRequest(h) /\ (RequestOK(next) /\ Typed => TypeOK')
    BY <1>1, ThenLemma
<1>3. RequestOK(work[h]) /\ work = [g \in Handlers |-> work[g]]
    BY DEF TypeOK
<1>4. RequestOK(work'[h])
    BY <1>3 DEF Then, RequestOK, PatchCalls, KeyCalls
<1>5. Typed
    BY <1>3, InventoryAssumption DEF Typed, TypeOK, RequestOK, KeyCalls, Row, Exists
<1>6. KeepsUsage(h)
    BY <1>3, InventoryAssumption DEF KeepsUsage, TypeOK, Unwritten, RequestOK, KeyCalls, Then, Row
<1>7. KeepsClean(h)
    BY <1>3, InventoryAssumption DEF KeepsClean, TypeOK, Untouched, Assigning, RequestOK, KeyCalls, Then, Row, Removing
<1>8. KeepsRows(h)
    BY <1>3 DEF KeepsRows, TypeOK, Then, PatchCalls, Row
<1>9. KeepsWithdrawn(h)
    BY <1>3 DEF KeepsWithdrawn, Revived, FitOK, FitCalls, Then, Withdrawn, TypeOK
<1> QED BY <1>2, <1>4, <1>5, <1>6, <1>7, <1>8, <1>9 DEF Sound

(* Placing servers, and emptying a space: keys and states stay, and a row  *)
(* that is moved gets a new version unless its space is gone.              *)
Moved(next, s) ==
  /\ next[s].key = server[s].key /\ next[s].state = server[s].state
  /\ \/ next[s].version = server[s].version + 1
     \/ /\ next[s].version = server[s].version
        /\ next[s].tags = server[s].tags
        /\ \/ next[s].space = server[s].space
           \/ server[s].space \in Spaces /\ space'[server[s].space] = "gone"

LEMMA RowLemma ==
  ASSUME NEW r \in Row, NEW k \in Keys \cup {None}, NEW p \in Spaces \cup {None},
         NEW T \in SUBSET Tags
  PROVE  /\ [r EXCEPT !.space = p] \in Row
         /\ [r EXCEPT !.space = p, !.version = r.version + 1] \in Row
         /\ [r EXCEPT !.key = k, !.space = p, !.tags = T, !.version = r.version + 1] \in Row
PROOF
<1>1. [r EXCEPT !.space = p] \in Row
    BY DEF Row
<1>2. r.version + 1 \in Nat
    BY DEF Row
<1>3. \A v \in Nat : [r EXCEPT !.space = p, !.version = v] \in Row
    BY DEF Row
<1>4. \A v \in Nat : [r EXCEPT !.key = k, !.space = p, !.tags = T, !.version = v] \in Row
    BY DEF Row
<1> QED BY <1>1, <1>2, <1>3, <1>4

LEMMA PlaceLemma ==
  ASSUME TypeOK, NEW S \in SUBSET Servers, NEW p \in Spaces \cup {None}
  PROVE  /\ Place(S, p) \in [Servers -> Row]
         /\ \A s \in Servers : Moved(Place(S, p), s)
PROOF
<1> SUFFICES ASSUME NEW s \in Servers
             PROVE  Place(S, p)[s] \in Row /\ Moved(Place(S, p), s)
    BY DEF Place
<1>1. server[s] \in Row
    BY DEF TypeOK
<1>2. CASE s \in S
    <2> DEFINE r == server[s]
    <2>1. Place(S, p)[s] = [r EXCEPT !.space = p, !.version = r.version + 1]
        BY <1>2 DEF Place
    <2>2. [r EXCEPT !.space = p, !.version = r.version + 1] \in Row
        BY <1>1, RowLemma
    <2>3. Place(S, p)[s] \in Row
        BY <1>1, <2>1, <2>2
    <2>4. Place(S, p)[s].key = r.key /\ Place(S, p)[s].state = r.state
          /\ Place(S, p)[s].version = r.version + 1
        BY <1>1, <2>1 DEF Row
    <2> QED BY <2>3, <2>4 DEF Moved
<1>3. CASE s \notin S
    <2>1. Place(S, p)[s] = server[s]
        BY <1>3 DEF Place
    <2> QED BY <1>1, <2>1 DEF Moved
<1> QED BY <1>2, <1>3

LEMMA EmptiedLemma ==
  ASSUME TypeOK, NEW S \in SUBSET Servers, NEW p \in Spaces, NEW into \in Spaces \cup {None},
         space'[p] = "gone"
  PROVE  /\ Emptied(S, p, into) \in [Servers -> Row]
         /\ \A s \in Servers : Moved(Emptied(S, p, into), s)
PROOF
<1> SUFFICES ASSUME NEW s \in Servers
             PROVE  Emptied(S, p, into)[s] \in Row /\ Moved(Emptied(S, p, into), s)
    BY DEF Emptied
<1> DEFINE r == server[s]
           e == Emptied(S, p, into)[s]
<1>1. r \in Row
    BY DEF TypeOK
<1>2. CASE s \in S
    <2>1. e = [r EXCEPT !.space = into, !.version = r.version + 1]
        BY <1>2 DEF Emptied
    <2>2. [r EXCEPT !.space = into, !.version = r.version + 1] \in Row
        BY <1>1, RowLemma
    <2>3. e.key = r.key /\ e.state = r.state /\ e.version = r.version + 1
        BY <1>1, <2>1 DEF Row
    <2> QED BY <1>1, <2>1, <2>2, <2>3 DEF Moved
<1>3. CASE s \notin S /\ r.space = p
    <2>1. e = [r EXCEPT !.space = None]
        BY <1>3 DEF Emptied
    <2>2. [r EXCEPT !.space = None] \in Row
        BY <1>1, RowLemma
    <2>3. e.key = r.key /\ e.state = r.state /\ e.version = r.version /\ e.tags = r.tags
        BY <1>1, <2>1 DEF Row
    <2> QED BY <1>1, <1>3, <2>1, <2>2, <2>3 DEF Moved
<1>4. CASE s \notin S /\ r.space # p
    <2>1. e = r
        BY <1>4 DEF Emptied
    <2> QED BY <1>1, <2>1 DEF Moved
<1> QED BY <1>2, <1>3, <1>4

LEMMA MovedLemma ==
  ASSUME TypeOK, NEW h \in Handlers, \A s \in Servers : Moved(server', s), work'[h] = Done,
         UNCHANGED <<status, deleted, usage>>, work[h].call \notin {"reread", "upsert", "owed"},
         \A p \in Spaces : space[p] = "gone" => space'[p] = "gone"
  PROVE  KeepsUsage(h) /\ KeepsClean(h) /\ KeepsRows(h) /\ KeepsWithdrawn(h)
PROOF
<1>1. KeepsUsage(h)
    BY DEF KeepsUsage, Moved, Unwritten
<1>2. KeepsClean(h)
    BY DEF KeepsClean, Moved, Untouched, Assigning, Done, Removing
<1>3. KeepsRows(h)
    BY DEF KeepsRows, Moved, Done, PatchCalls
<1>4. KeepsWithdrawn(h)
    BY DEF KeepsWithdrawn, Revived, FitOK, FitCalls, Done
<1> QED BY <1>1, <1>2, <1>3, <1>4

LEMMA CreateSpaceSound ==
  ASSUME TypeOK, NEW h \in Handlers, NEW p \in Spaces, NEW S \in SUBSET Servers, CreateSpace(h, p, S)
  PROVE  TypeOK' /\ Sound(h)
PROOF
<1>1. Then(h, Done) /\ work[h] = Ready
    BY DEF CreateSpace, May
<1>2. work'[h] = Done /\ OneRequest(h) /\ (RequestOK(Done) /\ Typed => TypeOK')
    BY <1>1, ThenLemma
<1>3. server' \in [Servers -> Row] /\ \A s \in Servers : Moved(server', s)
    BY PlaceLemma DEF CreateSpace
<1>4. Typed
    BY <1>3 DEF Typed, TypeOK, CreateSpace
<1>5. \A q \in Spaces : space[q] = "gone" => space'[q] = "gone"
    BY DEF CreateSpace, TypeOK
<1> QED BY <1>1, <1>2, <1>3, <1>4, <1>5, MovedLemma
    DEF Sound, CreateSpace, RequestOK, Ready, Done, PatchCalls, KeyCalls

LEMMA AttachWriteSound ==
  ASSUME TypeOK, NEW h \in Handlers, AttachWrite(h)
  PROVE  TypeOK' /\ Sound(h)
PROOF
<1>1. Then(h, Done) /\ work[h].call = "attach"
    BY DEF AttachWrite
<1>2. work'[h] = Done /\ OneRequest(h) /\ (RequestOK(Done) /\ Typed => TypeOK')
    BY <1>1, ThenLemma
<1>3. work[h].to \in Spaces \cup {None}
    BY <1>1 DEF TypeOK, RequestOK
<1>4. server' \in [Servers -> Row] /\ \A s \in Servers : Moved(server', s)
    <2>1. CASE server' = server
        BY <2>1 DEF TypeOK, Moved
    <2>2. CASE server' # server
        <3>1. server' = Place({s \in work[h].ids : Live(s)}, work[h].to)
            BY <2>2 DEF AttachWrite
        <3>2. {s \in work[h].ids : Live(s)} \in SUBSET Servers
            BY <1>1 DEF TypeOK, RequestOK
        <3> QED BY <1>3, <3>1, <3>2, PlaceLemma
    <2> QED BY <2>1, <2>2
<1>5. Typed
    BY <1>4 DEF Typed, TypeOK, AttachWrite
<1> QED BY <1>1, <1>2, <1>4, <1>5, MovedLemma
    DEF Sound, AttachWrite, RequestOK, Ready, Done, PatchCalls, KeyCalls

LEMMA AssignWriteSound ==
  ASSUME TypeOK, NEW h \in Handlers, AssignWrite(h)
  PROVE  TypeOK' /\ Sound(h)
PROOF
<1>1. Then(h, Done) /\ work[h].call = "assign"
    BY DEF AssignWrite
<1>2. work'[h] = Done /\ OneRequest(h) /\ (RequestOK(Done) /\ Typed => TypeOK')
    BY <1>1, ThenLemma
<1>3. work[h].to \in Spaces \cup {None} /\ work[h].on \in Servers
    BY <1>1 DEF TypeOK, RequestOK
<1>4. server' \in [Servers -> Row] /\ \A s \in Servers : Moved(server', s)
    <2>1. CASE server' = server
        BY <2>1 DEF TypeOK, Moved
    <2>2. CASE server' # server
        BY <1>3, <2>2, PlaceLemma DEF AssignWrite
    <2> QED BY <2>1, <2>2
<1>5. Typed
    BY <1>4 DEF Typed, TypeOK, AssignWrite
<1> QED BY <1>1, <1>2, <1>4, <1>5, MovedLemma
    DEF Sound, AssignWrite, RequestOK, Ready, Done, PatchCalls, KeyCalls

LEMMA RemoveSpaceDeleteSound ==
  ASSUME TypeOK, NEW h \in Handlers, RemoveSpaceDelete(h)
  PROVE  TypeOK' /\ Sound(h)
PROOF
<1>1. Then(h, Done) /\ work[h].call = "space.delete"
    BY DEF RemoveSpaceDelete
<1>2. work'[h] = Done /\ OneRequest(h) /\ (RequestOK(Done) /\ Typed => TypeOK')
    BY <1>1, ThenLemma
<1>3. work[h].of \in Spaces /\ work[h].into \in Spaces \cup {None} /\ work[h].moved \in SUBSET Servers
    BY <1>1 DEF TypeOK, RequestOK
<1>4. CASE space[work[h].of] = "there"
    <2>1. space' = [space EXCEPT ![work[h].of] = "gone"]
        BY <1>4 DEF RemoveSpaceDelete
    <2>2. space' \in [Spaces -> {"new", "there", "gone"}] /\ space'[work[h].of] = "gone"
        BY <1>3, <2>1 DEF TypeOK
    <2>3. server' \in [Servers -> Row] /\ \A s \in Servers : Moved(server', s)
        <3>1. server' = Emptied(work[h].moved, work[h].of, work[h].into)
            BY <1>4 DEF RemoveSpaceDelete
        <3> QED BY <1>3, <2>2, <3>1, EmptiedLemma
    <2>4. \A p \in Spaces : space[p] = "gone" => space'[p] = "gone"
        BY <1>3, <2>1 DEF TypeOK
    <2>5. Typed
        BY <2>2, <2>3 DEF Typed, TypeOK, RemoveSpaceDelete
    <2> QED BY <1>1, <1>2, <2>3, <2>4, <2>5, MovedLemma
        DEF Sound, RemoveSpaceDelete, RequestOK, Done, PatchCalls, KeyCalls
<1>5. CASE space[work[h].of] # "there"
    <2>1. UNCHANGED rows
        BY <1>5 DEF RemoveSpaceDelete, rows
    <2>2. Typed /\ \A s \in Servers : Moved(server', s)
        BY <2>1 DEF Typed, TypeOK, rows, Moved
    <2> QED BY <1>1, <1>2, <2>1, <2>2, MovedLemma
        DEF Sound, rows, RequestOK, Done, PatchCalls, KeyCalls
<1> QED BY <1>4, <1>5

LEMMA PatchedLemma ==
  ASSUME NEW r \in Row, NEW b \in Bodies
  PROVE  Patched(r, b) \in Row /\ Patched(r, b).state = r.state
         /\ Patched(r, b).key = (IF b.key = Keep THEN r.key ELSE b.key)
         /\ Patched(r, b).version = r.version + 1
PROOF
<1> DEFINE k == IF b.key = Keep THEN r.key ELSE b.key
           p == IF b.space = Keep THEN r.space ELSE b.space
           T == IF b.tags = Keep THEN r.tags ELSE b.tags
<1>1. Patched(r, b) = [r EXCEPT !.key = k, !.space = p, !.tags = T, !.version = r.version + 1]
    BY DEF Patched
<1>2. r.key \in Keys \cup {None} /\ r.space \in Spaces \cup {None} /\ r.tags \in SUBSET Tags
    BY DEF Row
<1>3. /\ b.key \in Keys \cup {None, Keep} /\ b.space \in Spaces \cup {None, Keep}
      /\ b.tags \in (SUBSET Tags) \cup {Keep}
    BY InventoryAssumption
<1>4. k \in Keys \cup {None} /\ p \in Spaces \cup {None} /\ T \in SUBSET Tags
    BY <1>2, <1>3
<1> HIDE DEF k, p, T
<1>5. [r EXCEPT !.key = k, !.space = p, !.tags = T, !.version = r.version + 1] \in Row
    BY <1>4, RowLemma
<1> QED BY <1>1, <1>5 DEF Row, k

LEMMA PatchWriteSound ==
  ASSUME TypeOK, NEW h \in Handlers, PatchWrite(h)
  PROVE  TypeOK' /\ Sound(h)
PROOF
<1> DEFINE w == work[h]
           wins == VersionMatches(w.on, w.row) /\ Exists(w.body.space)
           next == IF wins /\ Given(w.body.key) THEN Reread(w.body.key, w.on, w.fit) ELSE Done
<1>1. w.call = "patch.write" /\ w.on \in Servers /\ w.body \in Bodies /\ server[w.on] \in Row
    BY DEF PatchWrite, TypeOK, RequestOK, PatchCalls
<1>2. work'[h] = next /\ OneRequest(h) /\ (RequestOK(next) /\ Typed => TypeOK')
    BY ThenLemma DEF PatchWrite
<1>3. RequestOK(next)
    BY <1>1 DEF RequestOK, Reread, Done, Given, PatchCalls, KeyCalls
<1>9. KeepsWithdrawn(h)
    BY <1>1, <1>2 DEF PatchWrite, KeepsWithdrawn, Revived, FitOK, FitCalls, Reread, Done
<1>4. CASE wins
    <2> DEFINE new == Patched(server[w.on], w.body)
    <2>1. /\ new \in Row /\ new.state = server[w.on].state /\ new.version = server[w.on].version + 1
          /\ new.key = IF w.body.key = Keep THEN server[w.on].key ELSE w.body.key
        BY <1>1, PatchedLemma
    <2>2. server' = [server EXCEPT ![w.on] = new] /\ UNCHANGED <<status, deleted, usage, space>>
        BY <1>4 DEF PatchWrite
    <2>3. /\ server' \in [Servers -> Row] /\ server'[w.on] = new
          /\ \A s \in Servers : s # w.on => server'[s] = server[s]
        BY <1>1, <2>1, <2>2 DEF TypeOK
    <2> HIDE DEF new
    <2>4. Typed
        BY <2>2, <2>3 DEF Typed, TypeOK
    <2>5. KeepsUsage(h)
        BY <1>1, <1>2, <1>4, <2>1, <2>2, <2>3, InventoryAssumption
            DEF KeepsUsage, Given, Unwritten, Reread, TypeOK, Row
    <2>6. KeepsClean(h)
        BY <1>1, <1>2, <1>4, <2>1, <2>2, <2>3
            DEF KeepsClean, Untouched, Assigning, Reread, Done, Removing
    <2>7. KeepsRows(h)
        BY <1>1, <1>2, <2>1, <2>2, <2>3 DEF KeepsRows, Reread, Done, PatchCalls
    <2> QED BY <1>2, <1>3, <1>9, <2>4, <2>5, <2>6, <2>7 DEF Sound
<1>5. CASE ~wins
    <2>1. UNCHANGED rows /\ work'[h] = Done
        BY <1>2, <1>5 DEF PatchWrite, rows
    <2>2. Typed
        BY <2>1 DEF Typed, TypeOK, rows
    <2>3. KeepsUsage(h) /\ KeepsClean(h) /\ KeepsRows(h)
        BY <1>1, <2>1
            DEF KeepsUsage, KeepsClean, KeepsRows, rows, Unwritten, Untouched, Assigning, Done,
                Removing, PatchCalls
    <2> QED BY <1>2, <1>3, <1>9, <2>2, <2>3 DEF Sound
<1> QED BY <1>4, <1>5

----------------------------------------------------------------------------
(* The theorems.                                                           *)

LEMMA StepSound ==
  ASSUME TypeOK, NEW h \in Handlers, Step(h)
  PROVE  TypeOK' /\ Sound(h)
PROOF
<1>1. CASE KeyStep(h)
    <2>1. CASE \E s \in Servers : InstallAssign(h, s) \/ RotateServer(h, s)
        BY <2>1, InstallAssignSound, RotateServerSound
    <2>2. CASE RemoveKeyWrite(h)
        BY <2>2, RemoveKeyWriteSound
    <2>3. CASE \/ \E k \in Keys : PersistKey(h, k)
               \/ SetStatusWrite(h) \/ InstallFinish(h) \/ RotateOldStatus(h) \/ RotateNewStatus(h)
        <3>1. Asks(h) /\ status' \in [Keys -> Statuses]
            BY <2>3, StatusSound
        <3>2. (\E next : Then(h, next)) /\ UNCHANGED <<server, deleted, usage, space>>
            BY <2>3 DEF PersistKey, SetStatusWrite, InstallFinish, RotateOldStatus, RotateNewStatus
        <3> QED BY <3>1, <3>2, AsksLemma
    <2>4. CASE \/ \E k \in Keys : RemoveKeyRead(h, k)
               \/ \E k \in Keys, to \in SettableStatuses : SetStatusRead(h, k, to)
               \/ \E k \in Keys, S \in SUBSET Servers, p \in Spaces \cup {None} : InstallCheck(h, k, S, p)
               \/ \E k, to \in Keys, S \in SUBSET Servers : RotateRead(h, k, to, S)
               \/ \E s \in Servers : RotateServerFails(h, s)
               \/ InstallFind(h) \/ RotateCheck(h) \/ RotateFind(h) \/ RotateCount(h)
        <3>1. Asks(h)
            BY <2>4, KeyReadsSound
        <3>2. (\E next : Then(h, next)) /\ UNCHANGED rows
            BY <2>4 DEF RemoveKeyRead, SetStatusRead, InstallCheck, RotateRead, RotateServerFails,
                        InstallFind, RotateCheck, RotateFind, RotateCount
        <3> QED BY <3>1, <3>2, AsksLemma DEF rows, TypeOK
    <2> QED BY <1>1, <2>1, <2>2, <2>3, <2>4 DEF KeyStep
<1>2. CASE SpaceStep(h)
    <2>1. CASE \E p \in Spaces, S \in SUBSET Servers : CreateSpace(h, p, S)
        BY <2>1, CreateSpaceSound
    <2>2. CASE AttachWrite(h) \/ AssignWrite(h) \/ RemoveSpaceDelete(h) \/ TagsWrite(h)
        BY <2>2, AttachWriteSound, AssignWriteSound, RemoveSpaceDeleteSound, TagsWriteSound
    <2>3. CASE \/ \E p \in Spaces \cup {None}, S \in SUBSET Servers : AttachCheck(h, p, S)
               \/ \E p \in Spaces \cup {None}, s \in Servers : AssignCheck(h, p, s)
               \/ \E p \in Spaces, into \in Spaces \cup {None} : RemoveSpaceCheck(h, p, into)
               \/ \E s \in Servers, T \in SUBSET Tags : TagsRead(h, s, T, {}) \/ TagsRead(h, s, {}, T)
               \/ AssignRead(h) \/ RemoveSpaceMove(h)
        <3>1. Asks(h)
            BY <2>3, SpaceReadsSound
        <3>2. (\E next : Then(h, next)) /\ UNCHANGED rows
            BY <2>3 DEF AttachCheck, AssignCheck, RemoveSpaceCheck, TagsRead, AssignRead, RemoveSpaceMove
        <3> QED BY <3>1, <3>2, AsksLemma DEF rows, TypeOK
    <2> QED BY <1>2, <2>1, <2>2, <2>3 DEF SpaceStep
<1>3. CASE ServerStep(h) \/ Abort(h)
    <2>1. CASE \E s \in Servers : CreateServerRow(h, s) \/ RemoveServer(h, s)
        BY <2>1, CreateServerRowSound, RemoveServerSound
    <2>2. CASE PatchWrite(h) \/ UpsertUsage(h)
        BY <2>2, PatchWriteSound, UpsertUsageSound
    <2>3. CASE ActivateKey(h)
        <3>1. Asks(h) /\ status' \in [Keys -> Statuses]
            BY <2>3, StatusSound
        <3>2. (\E next : Then(h, next)) /\ UNCHANGED <<server, deleted, usage, space>>
            BY <2>3 DEF ActivateKey
        <3> QED BY <3>1, <3>2, AsksLemma
    <2>4. CASE \/ \E body \in Bodies : CreateServerSpace(h, body)
               \/ \E s \in Servers, body \in Bodies : PatchRead(h, s, body)
               \/ CreateServerKey(h) \/ PatchSpace(h) \/ PatchKey(h) \/ PatchReread(h) \/ Abort(h)
        <3>1. Asks(h)
            BY <2>4, ServerReadsSound
        <3>2. (\E next : Then(h, next)) /\ UNCHANGED rows
            BY <2>4 DEF CreateServerSpace, PatchRead, CreateServerKey, PatchSpace, PatchKey, PatchReread, Abort
        <3> QED BY <3>1, <3>2, AsksLemma DEF rows, TypeOK
    <2> QED BY <1>3, <2>1, <2>2, <2>3, <2>4 DEF ServerStep
<1> QED BY <1>1, <1>2, <1>3 DEF Step

LEMMA InitLemma == Init => IInv
PROOF
<1> SUFFICES ASSUME Init PROVE IInv
    OBVIOUS
<1> USE InventoryAssumption DEF Init, Ready, PatchCalls, KeyCalls
<1>1. NewRow \in Row /\ [NewRow EXCEPT !.state = "live"] \in Row
    BY DEF NewRow, Row
<1>2. \A s \in Servers : server[s].key = None
    BY DEF NewRow
<1>3. \A h \in Handlers : RequestOK(work[h]) /\ FitOK(work[h])
    BY DEF RequestOK, FitOK, FitCalls
<1>4. TypeOK
    BY <1>1, <1>3 DEF TypeOK, Statuses
<1>5. UsageCovers
    BY <1>2 DEF UsageCovers, Given
<1>6. AssignedBefore /\ RemovalClean /\ RemovedClean
    BY DEF AssignedBefore, RemovalClean, RemovedClean, Removing
<1>7. Noted /\ PatchBehind
    BY DEF Noted, Contended, Removing, PatchBehind
<1> QED BY <1>3, <1>4, <1>5, <1>6, <1>7 DEF IInv

LEMMA NextLemma == IInv /\ [Next]_vars => IInv'
PROOF
<1> SUFFICES ASSUME IInv, [Next]_vars PROVE IInv'
    OBVIOUS
<1>1. ASSUME NEW h \in Handlers, Step(h) PROVE IInv'
    <2>1. TypeOK' /\ Sound(h)
        BY <1>1, StepSound DEF IInv
    <2>2. UsageCovers'
        BY <2>1, UsageKeptLemma DEF IInv, Sound
    <2>3. AssignedBefore' /\ RemovalClean' /\ RemovedClean' /\ Noted'
        BY <2>1, CleanLemma DEF IInv, Sound
    <2>4. PatchBehind'
        BY <2>1, RowsLemma DEF IInv, Sound
    <2>5. \A g \in Handlers : FitOK(work'[g])
        BY <2>1 DEF IInv, Sound, OneRequest, KeepsWithdrawn, TypeOK
    <2> QED BY <2>1, <2>2, <2>3, <2>4, <2>5 DEF IInv
<1>2. CASE UNCHANGED vars
    BY <1>2 DEF IInv, vars, rows, TypeOK, UsageCovers, Unwritten, AssignedBefore, Assigning,
                RemovalClean, RemovedClean, Untouched, Noted, Contended, PatchBehind
<1> QED BY <1>1, <1>2 DEF Next

LEMMA Invariance == Spec => []IInv
PROOF
<1> QED BY InitLemma, NextLemma, PTL DEF Spec

(* Columns and requests keep their types.                                  *)
THEOREM TypeCorrect == Spec => []TypeOK
PROOF
<1>1. IInv => TypeOK
    BY DEF IInv
<1> QED BY <1>1, Invariance, PTL

(* Installs, rotations, creates and patches, however they interleave,      *)
(* leave no server with a key that no usage counts, save between the two   *)
(* writes of a create or a patch.                                          *)
THEOREM KeysAreCounted == Spec => []UsageCovers
PROOF
<1>1. IInv => UsageCovers
    BY DEF IInv
<1> QED BY <1>1, Invariance, PTL

(* remove() leaves a key in use only where an assignment overlapped it.    *)
THEOREM RemovedKeysUnused == Spec => []RemovedKeyUnused
PROOF
<1>1. IInv => RemovedKeyUnused
    BY DEF IInv, TypeOK, RemovedClean, RemovedKeyUnused, Untouched, UsersOf
<1> QED BY <1>1, Invariance, PTL

(* The compare and set of update() overwrites no tags and no space that it *)
(* has not read.                                                           *)
THEOREM PatchesSeeTheirRow == Spec => []PatchSeesRow
PROOF
<1>1. IInv => PatchSeesRow
    BY DEF IInv, PatchBehind, PatchSeesRow
<1> QED BY <1>1, Invariance, PTL

(* No assignment revives a key it read as disabled or compromised.         *)
THEOREM WithdrawnKeysStay == Spec => WithdrawnNotRevived
PROOF
<1> DEFINE Stay == \A k \in Keys : status[k] \in Withdrawn /\ status'[k] \notin Withdrawn \cup {"DELETING"} =>
             \E h \in Handlers : work'[h] # work[h] /\
               \/ work[h].call \in {"status", "rotate.old"}
               \/ work[h].call \in {"activate", "install.assign", "rotate.new"} /\ work[h].fit
<1>1. IInv /\ [Next]_vars => [Stay]_vars
    <2> SUFFICES ASSUME IInv, NEW h \in Handlers, Step(h) PROVE Stay
        BY DEF Next
    <2>1. Sound(h) /\ FitOK(work[h])
        BY StepSound DEF IInv
    <2> QED BY <2>1 DEF Sound, KeepsWithdrawn, Revived, FitOK, FitCalls
<1> QED BY <1>1, Invariance, PTL DEF Spec, WithdrawnNotRevived
=============================================================================
