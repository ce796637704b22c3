----------------------------- MODULE ServerSpaces -----------------------------
(***************************************************************************)
(* GroupsService of server-service, and the handlers of ServersService     *)
(* that place servers in spaces or edit their tags.  The name, slug and    *)
(* version of a space are left out: unique indexes and a compare and set   *)
(* guard them, and nothing else depends on them.                           *)
(***************************************************************************)
EXTENDS InventoryRows

(* create(): one transaction; it takes live servers along.                 *)
CreateSpace(h, p, S) ==
  /\ May(h, "space.create")
  /\ space[p] = "new"
  /\ \A s \in S : ~Locked(s)
  /\ space' = [space EXCEPT ![p] = "there"]
  /\ server' = Place({s \in S : Live(s)}, p)
  /\ Then(h, Done)
  /\ UNCHANGED <<status, deleted, usage>>

(* attachServers() and bulkGroup(): requireGroup(), then the live servers. *)
AttachCheck(h, p, S) ==
  /\ May(h, "attach")
  /\ Exists(p)
  /\ Then(h, [call |-> "attach", to |-> p, ids |-> S])
  /\ UNCHANGED rows

(* The foreign key refuses a space that is gone.                           *)
AttachWrite(h) ==
  LET w == work[h]
      live == {s \in w.ids : Live(s)}
  IN /\ w.call = "attach"
     /\ \A s \in live : ~Locked(s)
     /\ server' = IF Exists(w.to) THEN Place(live, w.to) ELSE server
     /\ Then(h, Done)
     /\ UNCHANGED <<status, deleted, usage, space>>

(* assignGroup(): the server is updated by id, even when deleted since.    *)
AssignCheck(h, p, s) ==
  /\ May(h, "assign")
  /\ Exists(p)
  /\ Then(h, [call |-> "assign.read", to |-> p, on |-> s])
  /\ UNCHANGED rows

AssignRead(h) ==
  LET w == work[h]
  IN /\ w.call = "assign.read"
     /\ Then(h, IF Live(w.on) THEN [call |-> "assign", to |-> w.to, on |-> w.on] ELSE Done)
     /\ UNCHANGED rows

AssignWrite(h) ==
  LET w == work[h]
  IN /\ w.call = "assign"
     /\ ~Locked(w.on)
     /\ server' = IF Exists(w.to) THEN Place({w.on}, w.to) ELSE server
     /\ Then(h, Done)
     /\ UNCHANGED <<status, deleted, usage, space>>

----------------------------------------------------------------------------
(* remove(): the two checks, then one transaction that moves the servers   *)
(* and deletes the space.  Its writes show when it commits; until then it  *)
(* holds the servers, and the space they go to cannot be deleted.          *)

RemoveSpaceCheck(h, p, into) ==
  /\ May(h, "space.remove")
  /\ into # p
  /\ space[p] = "there" /\ Exists(into)
  /\ Then(h, [call |-> "space.move", of |-> p, into |-> into])
  /\ UNCHANGED rows

RemoveSpaceMove(h) ==
  LET w == work[h]
      moved == {s \in Servers : server[s].space = w.of}
  IN /\ w.call = "space.move"
     /\ \A s \in moved : ~Locked(s)
     /\ Then(h, IF moved = {} \/ Exists(w.into)
                THEN [call |-> "space.delete", of |-> w.of, into |-> w.into, moved |-> moved]
                ELSE Done)
     /\ UNCHANGED rows

Held(p) == \E g \in Handlers :
  work[g].call = "space.delete" /\ work[g].into = p /\ work[g].moved # {}

(* A server that came in since the move is set to null by the foreign key, *)
(* which leaves its version alone.                                         *)
Emptied(moved, p, into) == [s \in Servers |->
  CASE s \in moved -> [server[s] EXCEPT !.space = into, !.version = @ + 1]
    [] s \notin moved /\ server[s].space = p -> [server[s] EXCEPT !.space = None]
    [] OTHER -> server[s]]

RemoveSpaceDelete(h) ==
  LET w == work[h]
  IN /\ w.call = "space.delete"
     /\ ~Held(w.of)
     /\ \A s \in Servers \ w.moved : server[s].space = w.of => ~Locked(s)
     /\ IF space[w.of] = "there"
        THEN /\ server' = Emptied(w.moved, w.of, w.into)
             /\ space' = [space EXCEPT ![w.of] = "gone"]
        ELSE UNCHANGED <<server, space>>
     /\ Then(h, Done)
     /\ UNCHANGED <<status, deleted, usage>>

----------------------------------------------------------------------------
(* addTags(), removeTag() and their bulk forms: read, merge, write by id.  *)

TagsRead(h, s, add, remove) ==
  /\ May(h, "tags")
  /\ Live(s)
  /\ Then(h, [call |-> "tags", on |-> s, tags |-> (server[s].tags \cup add) \ remove])
  /\ UNCHANGED rows

RetaggedUnversioned(s, tags) == [server EXCEPT ![s].tags = tags]
Retagged(s, tags) == [server EXCEPT ![s].tags = tags, ![s].version = @ + 1]

TagsWrite(h) ==
  /\ work[h].call = "tags"
  /\ ~Locked(work[h].on)
  /\ server' = Retagged(work[h].on, work[h].tags)
  /\ Then(h, Done)
  /\ UNCHANGED <<status, deleted, usage, space>>

SpaceStep(h) ==
  \/ \E p \in Spaces, S \in SUBSET Servers : CreateSpace(h, p, S)
  \/ \E p \in Spaces \cup {None}, S \in SUBSET Servers : AttachCheck(h, p, S)
  \/ \E p \in Spaces \cup {None}, s \in Servers : AssignCheck(h, p, s)
  \/ \E p \in Spaces, into \in Spaces \cup {None} : RemoveSpaceCheck(h, p, into)
  \/ \E s \in Servers, T \in SUBSET Tags : TagsRead(h, s, T, {}) \/ TagsRead(h, s, {}, T)
  \/ AttachWrite(h) \/ AssignRead(h) \/ AssignWrite(h)
  \/ RemoveSpaceMove(h) \/ RemoveSpaceDelete(h) \/ TagsWrite(h)
=============================================================================
