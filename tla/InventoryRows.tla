----------------------------- MODULE InventoryRows -----------------------------
(***************************************************************************)
(* The rows that the inventory handlers of server-service share: servers   *)
(* with their SSH key, space and tags, the SSH keys, the usage rows that   *)
(* count where a key is used, and the spaces.  SshKeys and ServerSpaces    *)
(* hold the handlers of two services, Inventory composes them with the     *)
(* handlers of ServersService.  A handler runs call by call, as in         *)
(* Operations; a request refused at its first call changes nothing and is  *)
(* no step.                                                                *)
(***************************************************************************)
EXTENDS Integers

CONSTANTS
  Handlers,  \* the requests, each handled once
  Serves,    \* bound: Serves[h] is what request h may ask for
  Servers, Keys, Spaces, Tags,
  Existing,  \* bound: the servers, keys and spaces there at the start
  Bodies,    \* bound: what a create or a patch of a server may say
  None,      \* null
  Keep       \* a field that a patch does not mention

ASSUME InventoryAssumption ==
  /\ None \notin Keys \cup Spaces
  /\ Keep \notin Keys \cup Spaces \cup {None}
  /\ Bodies \subseteq [key : Keys \cup {None, Keep}, space : Spaces \cup {None, Keep},
                       tags : (SUBSET Tags) \cup {Keep}]

VARIABLES
  server,     \* server[s]: the columns of Server that the handlers touch
  status,     \* status[k]: SshKey.status, "absent" before the key is saved
  deleted,    \* the keys with deletedAt
  usage,      \* SshKeyUsage rows of kind SERVER; nothing writes another kind
  space,      \* space[p]: whether the ServerSpace exists; ids are not reused
  work,       \* work[h]: the next database call of request h
  contended   \* history: keys removed while a request was assigning them

rows == <<server, status, deleted, usage, space>>
vars == <<rows, work, contended>>

Row == [state : {"absent", "live", "deleted"}, key : Keys \cup {None},
        space : Spaces \cup {None}, tags : SUBSET Tags, version : Nat]

(* No code writes EXPIRED.                                                 *)
Statuses == {"absent", "UNUSED", "ACTIVE", "ROTATION_REQUIRED", "DISABLED",
             "COMPROMISED", "DELETING"}

NewRow == [state |-> "absent", key |-> None, space |-> None, tags |-> {}, version |-> 1]

----------------------------------------------------------------------------
(* Requests: Ready, then a record per database call, Done at the end.      *)

Ready == [call |-> "ready"]
Done == [call |-> "done"]

(* A request that puts key k on server s and then writes the usage.        *)
(* Reread is update()'s second requireServer().  fit is history: whether   *)
(* the key was neither disabled nor compromised when the request read it.  *)
Reread(k, s, fit) == [call |-> "reread", key |-> k, on |-> s, fit |-> fit]
Upsert(k, s, fit) == [call |-> "upsert", key |-> k, on |-> s, fit |-> fit]

(* History: the request ended between the two writes.                      *)
Owed(k, s) == [call |-> "owed", key |-> k, on |-> s]

(* SshKeysService.remove() has seen key k unused.                          *)
Removing(k) == [call |-> "remove", key |-> k]

(* A request that has checked key k and may still put it on a server, or   *)
(* that has put it there and not written the usage.                        *)
Assigning(w, k) ==
  \/ w.call \in {"install.find", "install.assign", "rotate.find", "rotate.server",
                 "reread", "upsert", "owed"} /\ w.key = k
  \/ w.call \in {"create.row", "patch.write"} /\ w.body.key = k

Contended(w) == {k \in Keys : \E g, h \in Handlers : w[g] = Removing(k) /\ Assigning(w[h], k)}

May(h, ask) == work[h] = Ready /\ ask \in Serves[h]

Then(h, next) ==
  /\ work' = [work EXCEPT ![h] = next]
  /\ contended' = contended \cup Contended(work')

(* Any call may fail, or the process may die, and end the request.         *)
Abort(h) ==
  /\ work[h].call \notin {"ready", "done", "owed"}
  /\ Then(h, IF work[h].call \in {"reread", "upsert"}
             THEN Owed(work[h].key, work[h].on) ELSE Done)
  /\ UNCHANGED rows

----------------------------------------------------------------------------
(* Lookups.                                                                *)

Live(s) == server[s].state = "live"
Exists(p) == p \in Spaces => space[p] = "there"

(* requireKey(): deletedAt is null.                                        *)
Kept(k) == status[k] # "absent" /\ k \notin deleted

Withdrawn == {"DISABLED", "COMPROMISED"}
Fit(k) == status[k] \notin Withdrawn

UsersOf(k) == {s \in Servers : <<k, s>> \in usage}

(* The transaction that removes a space has written these servers and not  *)
(* committed: other writers wait.                                          *)
Locked(s) == \E h \in Handlers : work[h].call = "space.delete" /\ s \in work[h].moved

(* Writes one column; only some writers bump the version.                  *)
Rekey(s, k) == [server EXCEPT ![s].key = k]
Place(S, p) == [s \in Servers |-> IF s \in S
  THEN [server[s] EXCEPT !.space = p, !.version = @ + 1] ELSE server[s]]
=============================================================================
