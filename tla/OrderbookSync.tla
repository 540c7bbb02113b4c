---------------------------- MODULE OrderbookSync ----------------------------
(***************************************************************************)
(* OrderbookSyncState (mm_app/src/orderbook_sync.rs): the record that the  *)
(* strategy and the simulator keep beside their order book to decide, from *)
(* the update ids of a depth event, whether the event may be applied.      *)
(*                                                                         *)
(* The two fields that are only logged (first_update_seen and              *)
(* updates_since_snapshot) are left out.  Of last_resync_attempt only      *)
(* `stamped' is kept, whether it is set: the clock is its user's.          *)
(***************************************************************************)
EXTENDS Naturals

CONSTANT ResyncSkipThreshold    \* consecutive skips before a new snapshot is wanted

ASSUME ThresholdAssumption == ResyncSkipThreshold \in Nat \ {0}

(***************************************************************************)
(* A depth event carries the absolute quantities of the levels that        *)
(* changed in the update ids first .. final (Binance's U and u); prev (pu) *)
(* is the final id of the event before it, or 0 when the stream has no     *)
(* such field.                                                             *)
(***************************************************************************)
Event == [first : Nat, final : Nat, prev : Nat]

SyncState == [snapshot : Nat, last : Nat, synced : BOOLEAN,
              skipped : 0 .. ResyncSkipThreshold, stamped : BOOLEAN]

NewSync(id) ==
  [snapshot |-> id, last |-> 0, synced |-> FALSE, skipped |-> 0, stamped |-> FALSE]

(* The counter only matters up to the threshold, where it saturates here. *)
Skip(s) ==
  [s EXCEPT !.skipped = IF @ < ResyncSkipThreshold THEN @ + 1 ELSE @]

(* Faulty variants, each swapped in once to see that a property notices. *)
IsSyncPointNotBelow(s, e) == e.final >= s.snapshot
IsSyncPointLoose(s, e)    == e.first <= s.snapshot + 4 /\ e.final >= s.snapshot
IsGapNever(s, e)          == FALSE

(* Before synchronisation: the event has to span the snapshot's id. *)
IsSyncPoint(s, e) == e.first <= s.snapshot /\ e.final >= s.snapshot

(* While synchronised: the event does not follow the last one applied. *)
IsGap(s, e) == e.prev # 0 /\ e.prev # s.last

(* The result of should_process_update ... *)
Accepts(s, e) == IF s.synced THEN ~IsGap(s, e) ELSE IsSyncPoint(s, e)

(* ... and the state it leaves. *)
AfterUpdate(s, e) ==
  IF Accepts(s, e)
  THEN [s EXCEPT !.synced = TRUE, !.last = e.final, !.skipped = 0]
  ELSE [Skip(s) EXCEPT !.synced = FALSE]

(* should_resync, which stamps the attempt when it answers TRUE; recent:   *)
(* less than RESYNC_COOLDOWN_SECS have passed since the latest attempt.    *)
ResyncDue(s, recent) ==
  ~s.synced /\ s.skipped >= ResyncSkipThreshold /\ ~(s.stamped /\ recent)

StampAttempt(s) == [s EXCEPT !.stamped = TRUE]
=============================================================================
