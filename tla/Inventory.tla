------------------------------- MODULE Inventory -------------------------------
(***************************************************************************)
(* The inventory of server-service: the handlers of SshKeysService and     *)
(* GroupsService, composed with those of ServersService that create, edit  *)
(* and delete a server and assign its key.                                 *)
(***************************************************************************)
EXTENDS SshKeys, ServerSpaces

Given(k) == k \in Keys

(* requireUsableSshKey(): a key that needs rotation passes.                *)
UsableUnlessDisabled(k) == Kept(k) /\ status[k] \notin {"DISABLED", "DELETING"}
UsableOnServer(k) == Kept(k) /\ status[k] \notin Withdrawn \cup {"DELETING"}

(* create(): the space, the key, the row and, with a key, its usage.       *)
CreateServerSpace(h, body) ==
  /\ May(h, "server.create")
  /\ Exists(body.space)
  /\ Then(h, [call |-> "create.key", body |-> body])
  /\ UNCHANGED rows

CreateServerKey(h) ==
  LET k == work[h].body.key
  IN /\ work[h].call = "create.key"
     /\ Then(h, IF Given(k) => UsableOnServer(k)
                THEN [call |-> "create.row", body |-> work[h].body, fit |-> Given(k) => Fit(k)]
                ELSE Done)
     /\ UNCHANGED rows

OrNone(value) == IF value = Keep THEN None ELSE value

CreateServerRow(h, s) ==
  LET body == work[h].body
  IN /\ work[h].call = "create.row"
     /\ server[s].state = "absent"
     /\ Exists(body.space)
     /\ server' = [server EXCEPT ![s] = [state |-> "live", key |-> OrNone(body.key),
          space |-> OrNone(body.space), tags |-> IF body.tags = Keep THEN {} ELSE body.tags,
          version |-> 1]]
     /\ Then(h, IF Given(body.key) THEN Upsert(body.key, s, work[h].fit) ELSE Done)
     /\ UNCHANGED <<status, deleted, usage, space>>

(* update(): reads the row, checks space and key, then a compare and set   *)
(* on the version it read.                                                 *)
Patching(call, s, body, row, fit) ==
  [call |-> call, on |-> s, body |-> body, row |-> row, fit |-> fit]

PatchRead(h, s, body) ==
  /\ May(h, "server.patch")
  /\ Live(s)
  /\ Then(h, Patching("patch.space", s, body, server[s], TRUE))
  /\ UNCHANGED rows

PatchSpace(h) ==
  LET w == work[h]
  IN /\ w.call = "patch.space"
     /\ Then(h, IF Exists(w.body.space) THEN Patching("patch.key", w.on, w.body, w.row, TRUE)
                ELSE Done)
     /\ UNCHANGED rows

PatchKey(h) ==
  LET w == work[h]
      k == w.body.key
  IN /\ w.call = "patch.key"
     /\ Then(h, IF Given(k) => UsableOnServer(k)
                THEN Patching("patch.write", w.on, w.body, w.row, Given(k) => Fit(k)) ELSE Done)
     /\ UNCHANGED rows

VersionMatches(s, row) == Live(s) /\ server[s].version = row.version

Patched(row, body) == [row EXCEPT
  !.key = IF body.key = Keep THEN @ ELSE body.key,
  !.space = IF body.space = Keep THEN @ ELSE body.space,
  !.tags = IF body.tags = Keep THEN @ ELSE body.tags,
  !.version = @ + 1]

PatchWrite(h) ==
  LET w == work[h]
      wins == VersionMatches(w.on, w.row) /\ Exists(w.body.space)
  IN /\ w.call = "patch.write"
     /\ ~Locked(w.on)
     /\ server' = IF wins THEN [server EXCEPT ![w.on] = Patched(@, w.body)] ELSE server
     /\ Then(h, IF wins /\ Given(w.body.key) THEN Reread(w.body.key, w.on, w.fit) ELSE Done)
     /\ UNCHANGED <<status, deleted, usage, space>>

(* A server deleted since makes update() fail before the usage is written. *)
PatchReread(h) ==
  LET w == work[h]
  IN /\ w.call = "reread"
     /\ Then(h, IF Live(w.on) THEN Upsert(w.key, w.on, w.fit) ELSE Owed(w.key, w.on))
     /\ UNCHANGED rows

(* assignSshKeyUsage()                                                     *)
UpsertUsage(h) ==
  /\ work[h].call = "upsert"
  /\ usage' = UsageAdded(work[h].key, work[h].on)
  /\ Then(h, [call |-> "activate", key |-> work[h].key, fit |-> work[h].fit])
  /\ UNCHANGED <<server, status, deleted, space>>

ActivateKey(h) ==
  /\ work[h].call = "activate"
  /\ status' = [status EXCEPT ![work[h].key] = "ACTIVE"]
  /\ Then(h, Done)
  /\ UNCHANGED <<server, deleted, usage, space>>

(* remove(): the server keeps its key, and the key its usage.              *)
RemoveServer(h, s) ==
  /\ May(h, "server.remove")
  /\ Live(s)
  /\ ~Locked(s)
  /\ server' = [server EXCEPT ![s].state = "deleted"]
  /\ Then(h, Done)
  /\ UNCHANGED <<status, deleted, usage, space>>

ServerStep(h) ==
  \/ \E body \in Bodies : CreateServerSpace(h, body)
  \/ \E s \in Servers, body \in Bodies : PatchRead(h, s, body)
  \/ \E s \in Servers : CreateServerRow(h, s) \/ RemoveServer(h, s)
  \/ CreateServerKey(h) \/ PatchSpace(h) \/ PatchKey(h) \/ PatchWrite(h) \/ PatchReread(h)
  \/ UpsertUsage(h) \/ ActivateKey(h)

----------------------------------------------------------------------------
Init ==
  /\ server = [s \in Servers |->
       IF s \in Existing THEN [NewRow EXCEPT !.state = "live"] ELSE NewRow]
  /\ status = [k \in Keys |-> IF k \in Existing THEN "UNUSED" ELSE "absent"]
  /\ deleted = {}
  /\ usage = {}
  /\ space = [p \in Spaces |-> IF p \in Existing THEN "there" ELSE "new"]
  /\ work = [h \in Handlers |-> Ready]
  /\ contended = {}

Step(h) == KeyStep(h) \/ SpaceStep(h) \/ ServerStep(h) \/ Abort(h)

Next == \E h \in Handlers : Step(h)

Spec == Init /\ [][Next]_vars

----------------------------------------------------------------------------
PatchCalls == {"patch.space", "patch.key", "patch.write"}
KeyCalls == {"status", "remove", "install.find", "install.assign", "rotate.check",
  "rotate.find", "rotate.server", "rotate.old", "rotate.new", "reread", "upsert", "activate", "owed"}

RequestOK(w) ==
  /\ w.call \in KeyCalls => w.key \in Keys
  /\ w.call = "remove" => w = Removing(w.key)
  /\ w.call = "space.delete" => w.moved \subseteq Servers
  /\ w.call \in {"rotate.check", "rotate.find", "rotate.server", "rotate.old"} => w.from \in Keys
  /\ w.call = "status" => w.to \in SettableStatuses
  /\ w.call \in {"install.find", "rotate.check", "rotate.find", "attach"} => w.ids \subseteq Servers
  /\ w.call \in {"install.assign", "rotate.server"} => w.todo \subseteq Servers
  /\ w.call \in {"reread", "upsert", "owed", "assign.read", "assign", "tags"} \cup PatchCalls =>
       w.on \in Servers
  /\ w.call = "tags" => w.tags \subseteq Tags
  /\ w.call \in {"attach", "assign.read", "assign"} => w.to \in Spaces \cup {None}
  /\ w.call \in {"space.move", "space.delete"} => w.of \in Spaces /\ w.into \in Spaces \cup {None}
  /\ w.call \in {"create.key", "create.row"} \cup PatchCalls => w.body \in Bodies
  /\ w.call \in PatchCalls => w.row \in Row

(* Types of the columns, and of what the requests carry from call to call. *)
TypeOK ==
  /\ work = [h \in Handlers |-> work[h]]
  /\ \A h \in Handlers : RequestOK(work[h])
  /\ server \in [Servers -> Row]
  /\ status \in [Keys -> Statuses]
  /\ deleted \in SUBSET Keys
  /\ usage \in SUBSET (Keys \X Servers)
  /\ space \in [Spaces -> {"new", "there", "gone"}]
  /\ contended \in SUBSET Keys

(* A server that names a key is counted by a usage of that key, unless the *)
(* create or the patch that put it there is between its two writes or      *)
(* ended there: no interleaving of installs, rotations and patches loses a *)
(* usage, which is all that keeps remove() off a key in use.               *)
Unwritten(w, k, s) == w.call \in {"reread", "upsert", "owed"} /\ w.key = k /\ w.on = s

UsageCovers ==
  \A s \in Servers : Given(server[s].key) =>
    \/ <<server[s].key, s>> \in usage
    \/ \E h \in Handlers : Unwritten(work[h], server[s].key, s)

(* A removed key is on no server and has no usage, unless a request was    *)
(* assigning it while it was being removed: remove() checks and deletes in *)
(* two calls, and that overlap is the only way to delete a key in use.     *)
RemovedKeyUnused ==
  \A k \in deleted \ contended :
    UsersOf(k) = {} /\ (\A s \in Servers : server[s].key # k)

(* A patch whose compare and set would succeed still holds the tags and    *)
(* the space the server has: every writer of tags bumps the version, and   *)
(* the space changes behind it only when that space is deleted.            *)
PatchSeesRow ==
  \A h \in Handlers : work[h].call \in PatchCalls =>
    LET now == server[work[h].on]
        seen == work[h].row
    IN now.version = seen.version =>
         /\ now.tags = seen.tags
         /\ now.space = seen.space \/ (seen.space \in Spaces /\ space[seen.space] = "gone")

(* A disabled or compromised key becomes usable again only because its     *)
(* status is set, because a rotation away from it ends, or through a       *)
(* request that read the key before it was withdrawn.                      *)
WithdrawnNotRevived ==
  [][\A k \in Keys : status[k] \in Withdrawn /\ status'[k] \notin Withdrawn \cup {"DELETING"} =>
       \E h \in Handlers : work'[h] # work[h] /\
         \/ work[h].call \in {"status", "rotate.old"}
         \/ work[h].call \in {"activate", "install.assign", "rotate.new"} /\ work[h].fit]_vars
=============================================================================
