----------------------------- MODULE KVSnapshot -----------------------------
(***************************************************************************)
(* Log snapshots: KVSnapshot::create and KVSnapshot::merge of common.rs.   *)
(*                                                                         *)
(* create and merge are operators.  The state machine around them is the   *)
(* way a replicated log uses a snapshot type: entries are appended, and    *)
(* from time to time those after the last snapshot are condensed into a    *)
(* delta that is merged into it.  (The repository implements the trait but *)
(* does not attach it to Command, so that today nothing calls it.)         *)
(*                                                                         *)
(* deleted_keys is a Vec of which only membership matters: a set here.     *)
(***************************************************************************)
EXTENDS KVStore, Sequences

CONSTANT MaxEntries   (* bound on the length of the log                    *)

Snapshot == [snapshotted : Database, deleted_keys : SUBSET Keys]

(* One round of the loop of create.                                        *)
CreateStep(s, cmd) ==
  CASE cmd.op = "Put"    -> [s EXCEPT !.snapshotted[cmd.key] = cmd.value]
    [] cmd.op = "Delete" ->
         IF s.snapshotted[cmd.key] = NoValue
         THEN [s EXCEPT !.deleted_keys = @ \cup {cmd.key}]
         ELSE [s EXCEPT !.snapshotted[cmd.key] = NoValue]
    [] cmd.op = "Get"    -> s

(* CreateLoop(cmds)[i]: what the loop has collected after i commands.      *)
CreateLoop(cmds) ==
  LET loop[i \in 0..Len(cmds)] ==
        IF i = 0 THEN [snapshotted |-> NewDatabase, deleted_keys |-> {}]
                 ELSE CreateStep(loop[i - 1], cmds[i])
  IN  loop

\* Fault: deleted_keys keeps the keys that were put back.
CreateKeepsAll(cmds) == CreateLoop(cmds)[Len(cmds)]

Create(cmds) ==
  LET s == CreateLoop(cmds)[Len(cmds)]
  IN  [s EXCEPT !.deleted_keys = {k \in @ : s.snapshotted[k] = NoValue}]

\* Fault: the deletions of the delta are not applied.
MergePutsOnly(base, delta) ==
  [snapshotted  |-> [k \in Keys |-> IF delta.snapshotted[k] # NoValue
                                    THEN delta.snapshotted[k]
                                    ELSE base.snapshotted[k]],
   deleted_keys |-> {}]

Merge(base, delta) ==
  [snapshotted  |-> [k \in Keys |-> IF k \in delta.deleted_keys THEN NoValue
                                    ELSE IF delta.snapshotted[k] # NoValue
                                         THEN delta.snapshotted[k]
                                         ELSE base.snapshotted[k]],
   deleted_keys |-> {}]

-----------------------------------------------------------------------------
VARIABLES
  entries,    (* the log                                                   *)
  covered,    (* how many of its entries the snapshot stands for           *)
  snapshot    (* their snapshot                                            *)

snapVars == <<entries, covered, snapshot>>

SnapInit ==
  /\ entries = << >>
  /\ covered = 0
  /\ snapshot = Create(<< >>)

AppendEntry(cmd) ==
  /\ Len(entries) < MaxEntries
  /\ entries' = Append(entries, cmd)
  /\ UNCHANGED <<covered, snapshot>>

Uncovered == SubSeq(entries, covered + 1, Len(entries))

Compact ==
  /\ covered < Len(entries)
  /\ snapshot' = Merge(snapshot, Create(Uncovered))
  /\ covered' = Len(entries)
  /\ UNCHANGED entries

SnapNext == (\E cmd \in KVCommand : AppendEntry(cmd)) \/ Compact

SnapSpec == SnapInit /\ [][SnapNext]_snapVars

-----------------------------------------------------------------------------
(* Properties.                                                             *)

(* The store obtained by executing cmds, one after the other, on db.       *)
ReplayLoop(db, cmds) ==
  LET store[i \in 0..Len(cmds)] == IF i = 0 THEN db ELSE Effect(store[i - 1], cmds[i])
  IN  store

Replay(db, cmds) == ReplayLoop(db, cmds)[Len(cmds)]

(* Where cmds writes k.                                                    *)
Writes(cmds, k) == {i \in 1..Len(cmds) : cmds[i].op # "Get" /\ cmds[i].key = k}

(* The write of k before the one at i is a Put.                            *)
PutBefore(cmds, k, i) ==
  \E j \in Writes(cmds, k) :
    /\ j < i
    /\ cmds[j].op = "Put"
    /\ \A l \in Writes(cmds, k) : l <= j \/ i <= l

(* A delta hides the deletion of k when it ends with k deleted, yet every  *)
(* Delete of k in it follows a Put of k in it.                             *)
HidesDeletion(cmds, k) ==
  /\ \E i \in Writes(cmds, k) :
       cmds[i].op = "Delete" /\ \A j \in Writes(cmds, k) : j <= i
  /\ \A i \in Writes(cmds, k) : cmds[i].op = "Delete" => PutBefore(cmds, k, i)

(* A snapshot created from a whole log is the store the log leads to, and  *)
(* its deleted_keys are absent from it.                                    *)
CreateIsReplay ==
  LET s == Create(entries)
  IN  /\ s.snapshotted = Replay(NewDatabase, entries)
      /\ \A k \in s.deleted_keys : s.snapshotted[k] = NoValue

(* Exactly which deltas merge wrongly: for every split of the log, merging *)
(* the delta of the second part into a snapshot of the first gives what    *)
(* executing the second part gives, except at the keys the first part left *)
(* present and whose deletion the delta hides; there the old value comes   *)
(* back.                                                                   *)
MergeIsReplayBut ==
  \A i \in 0..Len(entries) :
    LET base   == Create(SubSeq(entries, 1, i))
        delta  == SubSeq(entries, i + 1, Len(entries))
        merged == Merge(base, Create(delta)).snapshotted
    IN  \A k \in Keys :
          merged[k] = IF HidesDeletion(delta, k)
                      THEN base.snapshotted[k]
                      ELSE Replay(base.snapshotted, delta)[k]

(* A restart from the snapshot: the snapshot and the entries after it      *)
(* determine the store.  create collects the deleted keys, except those    *)
(* "that were put back", for the sake of this.                             *)
SnapshotRestores ==
  Replay(snapshot.snapshotted, Uncovered) = Replay(NewDatabase, entries)

(* No deletion of a key in the snapshot is hidden by the next delta.       *)
NothingHidden ==
  \A k \in Keys : HidesDeletion(Uncovered, k) => snapshot.snapshotted[k] = NoValue
=============================================================================
