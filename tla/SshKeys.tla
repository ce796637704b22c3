-------------------------------- MODULE SshKeys --------------------------------
(***************************************************************************)
(* SshKeysService of server-service: saving a key, changing its status,    *)
(* removing it, installing it on servers and rotating servers from one key *)
(* to another.  Key material, names and audit are left out.                *)
(***************************************************************************)
EXTENDS InventoryRows

(* persistKey(): the partial unique index on the fingerprint decides       *)
(* between two imports of one key, so a duplicate is a refusal.            *)
PersistKey(h, k) ==
  /\ May(h, "persist")
  /\ status[k] = "absent"
  /\ status' = [status EXCEPT ![k] = "UNUSED"]
  /\ Then(h, Done)
  /\ UNCHANGED <<server, deleted, usage, space>>

(* update() with a status and disable(); the version that update() may     *)
(* carry is compared with the row read here, so a stale one is a refusal.  *)
SettableStatuses == {"ACTIVE", "UNUSED", "ROTATION_REQUIRED", "DISABLED", "COMPROMISED"}

SetStatusRead(h, k, to) ==
  /\ May(h, "status")
  /\ Kept(k)
  /\ Then(h, [call |-> "status", key |-> k, to |-> to])
  /\ UNCHANGED rows

SetStatusWrite(h) ==
  /\ work[h].call = "status"
  /\ status' = [status EXCEPT ![work[h].key] = work[h].to]
  /\ Then(h, Done)
  /\ UNCHANGED <<server, deleted, usage, space>>

(* remove(): counts the usages it read, deletes by id later.               *)
AnyUse(k) == TRUE
Unused(k) == UsersOf(k) = {}

RemoveKeyRead(h, k) ==
  /\ May(h, "remove")
  /\ Kept(k)
  /\ Unused(k)
  /\ Then(h, Removing(k))
  /\ UNCHANGED rows

RemoveKeyWrite(h) ==
  /\ work[h].call = "remove"
  /\ status' = [status EXCEPT ![work[h].key] = "DELETING"]
  /\ deleted' = deleted \cup {work[h].key}
  /\ Then(h, Done)
  /\ UNCHANGED <<server, usage, space>>

----------------------------------------------------------------------------
(* install(): one transaction per server, then the status of the key.      *)

(* isUsableStatus(resolveStatus()): no code sets rotationDueAt.            *)
InstallCheck(h, k, S, p) ==
  /\ May(h, "install")
  /\ Kept(k)
  /\ status[k] \in {"ACTIVE", "UNUSED"}
  /\ Then(h, [call |-> "install.find", key |-> k, ids |-> S, of |-> p, fit |-> Fit(k)])
  /\ UNCHANGED rows

Installing(k, S, fit) == [call |-> "install.assign", key |-> k, todo |-> S, fit |-> fit]

(* resolveServers(): the ids, all of which must be live, or a space.       *)
InstallFind(h) ==
  LET w == work[h]
      found == IF w.ids # {} THEN w.ids
               ELSE {s \in Servers : Live(s) /\ server[s].space = w.of}
  IN /\ w.call = "install.find"
     /\ Then(h, IF (w.ids = {} /\ w.of = None) \/ (\E s \in found : ~Live(s)) THEN Done
                ELSE Installing(w.key, found, w.fit))
     /\ UNCHANGED rows

(* The usage of the key the server had before stays.                       *)
UsageAdded(k, s) == usage \cup {<<k, s>>}

InstallAssign(h, s) ==
  LET w == work[h]
  IN /\ w.call = "install.assign"
     /\ s \in w.todo
     /\ ~Locked(s)
     /\ server' = Rekey(s, w.key)
     /\ usage' = UsageAdded(w.key, s)
     /\ Then(h, Installing(w.key, w.todo \ {s}, w.fit))
     /\ UNCHANGED <<status, deleted, space>>

InstallFinish(h) ==
  /\ work[h].call = "install.assign"
  /\ work[h].todo = {}
  /\ status' = [status EXCEPT ![work[h].key] = "ACTIVE"]
  /\ Then(h, Done)
  /\ UNCHANGED <<server, deleted, usage, space>>

----------------------------------------------------------------------------
(* rotate(): reads both keys, moves the servers one transaction at a time, *)
(* then counts what is left and writes both statuses.                      *)

(* Without ids: the servers the current key is used on.                    *)
RotateRead(h, k, to, S) ==
  /\ May(h, "rotate")
  /\ Kept(k)
  /\ Then(h, [call |-> "rotate.check", key |-> to, from |-> k,
              ids |-> IF S # {} THEN S ELSE UsersOf(k)])
  /\ UNCHANGED rows

Rotatable(k) == Kept(k) /\ status[k] \notin Withdrawn

RotateCheck(h) ==
  LET w == work[h]
  IN /\ w.call = "rotate.check"
     /\ Then(h, IF Rotatable(w.key)
                THEN [call |-> "rotate.find", key |-> w.key, from |-> w.from, ids |-> w.ids,
                      fit |-> Fit(w.key)]
                ELSE Done)
     /\ UNCHANGED rows

Rotating(k, from, S, failed, fit) ==
  [call |-> "rotate.server", key |-> k, from |-> from, todo |-> S, failed |-> failed, fit |-> fit]

RotateFind(h) ==
  LET w == work[h]
  IN /\ w.call = "rotate.find"
     /\ Then(h, IF w.ids = {} \/ (\E s \in w.ids : ~Live(s)) THEN Done
                ELSE Rotating(w.key, w.from, w.ids, FALSE, w.fit))
     /\ UNCHANGED rows

(* The usage of the old key goes, the usage of the new one comes; they may *)
(* be the same key.                                                        *)
UsageMovedBack(from, to, s) == (usage \cup {<<to, s>>}) \ {<<from, s>>}
UsageMoved(from, to, s) == (usage \ {<<from, s>>}) \cup {<<to, s>>}

RotateServer(h, s) ==
  LET w == work[h]
  IN /\ w.call = "rotate.server"
     /\ s \in w.todo
     /\ ~Locked(s)
     /\ server' = Rekey(s, w.key)
     /\ usage' = UsageMoved(w.from, w.key, s)
     /\ Then(h, Rotating(w.key, w.from, w.todo \ {s}, w.failed, w.fit))
     /\ UNCHANGED <<status, deleted, space>>

(* The catch: a server that fails is reported and the loop goes on.        *)
RotateServerFails(h, s) ==
  LET w == work[h]
  IN /\ w.call = "rotate.server"
     /\ s \in w.todo
     /\ Then(h, Rotating(w.key, w.from, w.todo \ {s}, TRUE, w.fit))
     /\ UNCHANGED rows

(* One failure and both statuses stay.                                     *)
RotateCount(h) ==
  LET w == work[h]
  IN /\ w.call = "rotate.server"
     /\ w.todo = {}
     /\ Then(h, IF w.failed THEN Done
                ELSE [call |-> "rotate.old", key |-> w.key, from |-> w.from,
                      left |-> UsersOf(w.from), fit |-> w.fit])
     /\ UNCHANGED rows

RotateOldStatus(h) ==
  LET w == work[h]
  IN /\ w.call = "rotate.old"
     /\ status' = [status EXCEPT ![w.from] = IF w.left = {} THEN "UNUSED" ELSE "ROTATION_REQUIRED"]
     /\ Then(h, [call |-> "rotate.new", key |-> w.key, fit |-> w.fit])
     /\ UNCHANGED <<server, deleted, usage, space>>

RotateNewStatus(h) ==
  /\ work[h].call = "rotate.new"
  /\ status' = [status EXCEPT ![work[h].key] = "ACTIVE"]
  /\ Then(h, Done)
  /\ UNCHANGED <<server, deleted, usage, space>>

KeyStep(h) ==
  \/ \E k \in Keys : PersistKey(h, k) \/ RemoveKeyRead(h, k)
  \/ \E k \in Keys, to \in SettableStatuses : SetStatusRead(h, k, to)
  \/ \E k \in Keys, S \in SUBSET Servers, p \in Spaces \cup {None} : InstallCheck(h, k, S, p)
  \/ \E k, to \in Keys, S \in SUBSET Servers : RotateRead(h, k, to, S)
  \/ \E s \in Servers : InstallAssign(h, s) \/ RotateServer(h, s) \/ RotateServerFails(h, s)
  \/ SetStatusWrite(h) \/ RemoveKeyWrite(h) \/ InstallFind(h) \/ InstallFinish(h)
  \/ RotateCheck(h) \/ RotateFind(h) \/ RotateCount(h) \/ RotateOldStatus(h) \/ RotateNewStatus(h)
=============================================================================
